---- MODULE Spec2Model ----
(***************************************************************************)
(* CreditSmart front-end: the client-only password authentication flow.    *)
(*                                                                         *)
(* authService (signUp, signIn, restoreSession, signOut,                   *)
(* updateUserCurrency) over localStorage and sessionStorage, the           *)
(* AuthProvider state built on it, and the ProtectedRoute guard of the     *)
(* /dashboard, /risk-engine and /explainability routes.                    *)
(*                                                                         *)
(* Strings are sequences of one-character strings, so that trim(),         *)
(* toLowerCase() and includes('@') are computed and not assumed.  An       *)
(* optional value (null or a value) is a sequence of length 0 or 1.        *)
(***************************************************************************)
EXTENDS Integers, Sequences, FiniteSets, TLC

VARIABLES
    localStorage,    \* window.localStorage, shared by all loads of the app
    sessionStorage,  \* window.sessionStorage, discarded when the browser closes
    authState,       \* AuthProvider's useState<AuthState>
    phase,           \* "closed" | "mounting" (before the mount effect) | "ready"
    location,        \* react-router location.pathname
    rendered,        \* what the element of the current route renders
    inflight,        \* the signIn/signUp call awaiting hashPassword, if any
    returned,        \* what the step just taken returned to the caller of signIn/signUp, if anything
    lastSignIn,      \* history: how the user last signed in or out ("never",
                     \* "remembered", "temporary", "temporary_closed" once the
                     \* browser was closed after a temporary sign-in, "signed_out")
    loginPage,       \* LoginPage's useState values (those of a fresh mount when
                     \* the page is not on screen)
    submission,      \* the run of LoginPage.handleSubmit awaiting signUp or signIn, if any
    currency,        \* CurrencyProvider's useState<Currency>
    analysis,        \* the Dashboard or RiskEnginePage on screen: validationError
                     \* and the state of its usePrediction hook
    explain,         \* the ExplainabilityPage on screen: cachedFeatures and the
                     \* prediction of its usePrediction hook
    request,         \* the runPrediction awaiting its prediction, if any
    useMockData,     \* usePrediction's USE_MOCK_DATA, fixed by the build
    call             \* the last call of a function of src/lib made on its own

\* the state of the authentication flow, and the state of the pages behind it
authVars == <<localStorage, sessionStorage, authState, phase, location, rendered,
              inflight, returned, lastSignIn, loginPage, submission>>
appVars == <<currency, analysis, explain, request, useMockData, call>>

vars == <<localStorage, sessionStorage, authState, phase, location, rendered,
          inflight, returned, lastSignIn, loginPage, submission,
          currency, analysis, explain, request, useMockData, call>>

----------------------------------------------------------------------------
(* Optional values *)

Null == <<>>
Some(v) == <<v>>
IsNull(o) == o = <<>>
Get(o) == o[1]

----------------------------------------------------------------------------
(* Strings *)

\* String.prototype.includes for a one-character needle
Includes(s, c) == \E i \in 1..Len(s) : s[i] = c

\* String.prototype.includes for a needle of any length
Contains(s, sub) ==
    \E i \in 1..(Len(s) - Len(sub) + 1) : SubSeq(s, i, i + Len(sub) - 1) = sub

IsSpace(c) == c = " "

\* String.prototype.trim
RECURSIVE TrimStart(_)
TrimStart(s) ==
    IF s # <<>> /\ IsSpace(Head(s)) THEN TrimStart(Tail(s)) ELSE s

RECURSIVE TrimEnd(_)
TrimEnd(s) ==
    IF s # <<>> /\ IsSpace(s[Len(s)]) THEN TrimEnd(SubSeq(s, 1, Len(s) - 1)) ELSE s

Trim(s) == TrimEnd(TrimStart(s))

LowerChar(c) ==
    CASE c = "A" -> "a"
      [] c = "B" -> "b"
      [] c = "D" -> "d"
      [] c = "E" -> "e"
      [] c = "G" -> "g"
      [] c = "H" -> "h"
      [] c = "I" -> "i"
      [] c = "L" -> "l"
      [] c = "M" -> "m"
      [] c = "O" -> "o"
      [] c = "U" -> "u"
      [] c = "W" -> "w"
      [] c = "X" -> "x"
      [] OTHER   -> c

\* String.prototype.toLowerCase
ToLowerCase(s) == [i \in 1..Len(s) |-> LowerChar(s[i])]

\* String.prototype.charCodeAt for the characters of the model's alphabet
CharCode(c) ==
    CASE c = " " -> 32
      [] c = "@" -> 64
      [] c = "A" -> 65
      [] c = "B" -> 66
      [] c = "X" -> 88
      [] c = "a" -> 97
      [] c = "b" -> 98
      [] c = "x" -> 120
      [] OTHER   -> 63

----------------------------------------------------------------------------
(* JavaScript values, as the prediction adapter meets them in a response body.
   A number is the exact fraction <<numerator, denominator>> with a positive
   denominator, and NaN is <<0, 0>>.  A string is a sequence of characters.
   An object is the sequence of its entries in insertion order. *)

Undefined == [t |-> "undefined"]
JNull == [t |-> "null"]
Num(q) == [t |-> "number", v |-> q]
Str(chars) == [t |-> "string", v |-> chars]
Arr(items) == [t |-> "array", v |-> items]
Obj(entries) == [t |-> "object", v |-> entries]
Entry(key, value) == [k |-> key, v |-> value]

Rat(n) == <<n, 1>>
NaN == <<0, 0>>
IsNaN(q) == q[2] = 0

\* <, <= on numbers: false when either is NaN
Less(a, b) == ~IsNaN(a) /\ ~IsNaN(b) /\ a[1] * b[2] < b[1] * a[2]
LessEq(a, b) == ~IsNaN(a) /\ ~IsNaN(b) /\ a[1] * b[2] <= b[1] * a[2]

\* Math.max, Math.min: NaN when either is NaN
MathMax(a, b) == IF IsNaN(a) \/ IsNaN(b) THEN NaN ELSE IF Less(a, b) THEN b ELSE a
MathMin(a, b) == IF IsNaN(a) \/ IsNaN(b) THEN NaN ELSE IF Less(b, a) THEN b ELSE a

\* Math.round: the integer nearest to q, halves going up
MathRound(q) == IF IsNaN(q) THEN NaN ELSE Rat((2 * q[1] + q[2]) \div (2 * q[2]))

\* q * n for an integer n
Scale(q, n) == IF IsNaN(q) THEN NaN ELSE <<q[1] * n, q[2]>>

\* obj.key, also on a value that is no object (undefined then)
HasField(x, key) == x.t = "object" /\ \E i \in 1..Len(x.v) : x.v[i].k = key

Field(x, key) ==
    IF HasField(x, key)
    THEN x.v[CHOOSE i \in 1..Len(x.v) : x.v[i].k = key].v
    ELSE Undefined

\* ===
StrictEquals(a, b) ==
    /\ a.t = b.t
    /\ a.t \in {"undefined", "null"} \/ (a.t = "number" /\ ~IsNaN(a.v) /\ a.v = b.v)
          \/ (a.t \notin {"undefined", "null", "number"} /\ a.v = b.v)

\* the value is truthy
Truthy(x) ==
    CASE x.t \in {"undefined", "null"} -> FALSE
      [] x.t = "number" -> ~IsNaN(x.v) /\ x.v[1] # 0
      [] x.t = "string" -> x.v # <<>>
      [] OTHER -> TRUE

\* a || b
OrElse(a, b) == IF Truthy(a) THEN a ELSE b

Chars(word) ==
    CASE word = "undefined" -> <<"u", "n", "d", "e", "f", "i", "n", "e", "d">>
      [] word = "null" -> <<"n", "u", "l", "l">>
      [] word = "NaN" -> <<"N", "a", "N">>
      [] word = "low" -> <<"l", "o", "w">>
      [] word = "medium" -> <<"m", "e", "d", "i", "u", "m">>
      [] word = "high" -> <<"h", "i", "g", "h">>
      [] word = "MEDIUM" -> <<"M", "E", "D", "I", "U", "M">>
      [] word = "positive" -> <<"p", "o", "s", "i", "t", "i", "v", "e">>
      [] word = "negative" -> <<"n", "e", "g", "a", "t", "i", "v", "e">>
      [] word = "success" -> <<"s", "u", "c", "c", "e", "s", "s">>
      [] word = "error" -> <<"e", "r", "r", "o", "r">>
      [] word = "[object Object]" ->
            <<"[", "o", "b", "j", "e", "c", "t", " ", "O", "b", "j", "e", "c", "t", "]">>

DecimalDigits == <<"0", "1", "2", "3", "4", "5", "6", "7", "8", "9">>

RECURSIVE NaturalToString(_)
NaturalToString(n) ==
    IF n < 10 THEN <<DecimalDigits[n + 1]>>
    ELSE Append(NaturalToString(n \div 10), DecimalDigits[(n % 10) + 1])

\* String(value).  The numbers of the model that are turned into text are
\* integers, and its arrays are turned into text only when empty.
String(x) ==
    CASE x.t = "string" -> x.v
      [] x.t = "undefined" -> Chars("undefined")
      [] x.t = "null" -> Chars("null")
      [] x.t = "number" ->
            IF IsNaN(x.v) THEN Chars("NaN")
            ELSE IF x.v[1] < 0 THEN <<"-">> \o NaturalToString((-x.v[1]) \div x.v[2])
            ELSE NaturalToString(x.v[1] \div x.v[2])
      [] x.t = "array" -> <<>>
      [] x.t = "object" -> Chars("[object Object]")

IsDigit(c) == \E i \in 1..10 : DecimalDigits[i] = c

RECURSIVE DigitsValue(_)
DigitsValue(chars) ==
    IF chars = <<>> THEN 0
    ELSE 10 * DigitsValue(SubSeq(chars, 1, Len(chars) - 1))
         + ((CHOOSE i \in 1..10 : DecimalDigits[i] = chars[Len(chars)]) - 1)

\* the number a value becomes in arithmetic (the strings of the model are
\* blank, a run of digits, or no number at all)
ToNumber(x) ==
    CASE x.t = "number" -> x.v
      [] x.t = "null" -> Rat(0)
      [] x.t = "string" ->
            LET text == Trim(x.v)
            IN  IF text = <<>> THEN Rat(0)
                ELSE IF \A i \in 1..Len(text) : IsDigit(text[i]) THEN Rat(DigitsValue(text))
                ELSE NaN
      [] x.t = "array" -> IF x.v = <<>> THEN Rat(0) ELSE NaN
      [] OTHER -> NaN

UpperChar(c) ==
    CASE c = "a" -> "A"
      [] c = "b" -> "B"
      [] c = "d" -> "D"
      [] c = "i" -> "I"
      [] c = "t" -> "T"
      [] c = "x" -> "X"
      [] OTHER   -> c

\* \w
IsWordChar(c) == c # " " /\ c # "-" /\ c # "%" /\ c # "@"

\* name.replace(/_/g, ' ').replace(/\b\w/g, l => l.toUpperCase())
FactorName(name) ==
    LET spaced == [i \in 1..Len(name) |-> IF name[i] = "_" THEN " " ELSE name[i]]
    IN  [i \in 1..Len(spaced) |->
            IF IsWordChar(spaced[i]) /\ (i = 1 \/ ~IsWordChar(spaced[i - 1]))
            THEN UpperChar(spaced[i])
            ELSE spaced[i]]

----------------------------------------------------------------------------
(* Inputs *)

\* new Date().toISOString(): the instant of the call.  Instants are not told
\* apart: nothing in the service reads a createdAt back.
Times == { "2026-02-04T12:00:00.000Z" }

\* signUp: if (!password || password.length < 6)
MinPasswordLength == 6

NameInputs == { <<>>, <<" ">>, <<" ", "A", "l">> }

EmailInputs ==
    { <<>>,                          \* empty
      <<"a">>,                       \* no '@'
      <<"@">>,                       \* an '@' and nothing else
      <<"a", "@", "x">>,
      <<" ", "A", "@", "X", " ">> }  \* the same address up to case and blanks

PasswordInputs ==
    { <<>>,
      <<"p", "w", "1", "2", "3">>,        \* 5 characters
      <<"s", "e", "c", "r", "e", "t">>,
      <<"h", "u", "n", "t", "e", "r">> }

CurrencyInputs == { "USD", "EUR" }

Paths == { "/", "/login", "/dashboard", "/risk-engine", "/explainability" }

\* App.tsx: the routes wrapped in <ProtectedRoute>
ProtectedPaths == { "/dashboard", "/risk-engine", "/explainability" }

----------------------------------------------------------------------------
(* authService: storage *)

USERS_STORAGE_KEY == "creditsmart_users"
SESSION_STORAGE_KEY == "creditsmart_session"

\* CurrencyContext's STORAGE_KEY and ExplainabilityPage's STORAGE_KEY
CURRENCY_STORAGE_KEY == "creditsmart_currency"
EXPLANATION_STORAGE_KEY == "creditsmart_last_explanation"

StorageKeys ==
    { USERS_STORAGE_KEY, SESSION_STORAGE_KEY, CURRENCY_STORAGE_KEY, EXPLANATION_STORAGE_KEY }

EmptyStorage == [k \in StorageKeys |-> Null]

\* JSON.stringify / JSON.parse of the plain objects the service stores
JSONstringify(v) == [json |-> v]
JSONparse(s) == s.json

GetItem(storage, key) == storage[key]
SetItem(storage, key, str) == [storage EXCEPT ![key] = Some(str)]
RemoveItem(storage, key) == [storage EXCEPT ![key] = Null]

\* the empty object {}
EmptyDatabase == [e \in {} |-> e]

loadUsersDatabase(ls) ==
    LET stored == GetItem(ls, USERS_STORAGE_KEY)
    IN  IF IsNull(stored) THEN EmptyDatabase ELSE JSONparse(Get(stored))

saveUsersDatabase(ls, database) ==
    SetItem(ls, USERS_STORAGE_KEY, JSONstringify(database))

\* crypto.subtle.digest('SHA-256', ...) as a hex string, on the passwords of
\* the model: the first 8 hex digits of the digest of each
hashPassword(password) ==
    CASE password = <<>> -> <<"e", "3", "b", "0", "c", "4", "4", "2">>
      [] password = <<"p", "w", "1", "2", "3">> -> <<"2", "3", "d", "4", "7", "4", "4", "5">>
      [] password = <<"s", "e", "c", "r", "e", "t">> -> <<"2", "b", "b", "8", "0", "d", "5", "3">>
      [] password = <<"h", "u", "n", "t", "e", "r">> -> <<"e", "9", "a", "6", "3", "a", "4", "e">>

----------------------------------------------------------------------------
(* authService: generateUserId *)

RECURSIVE HashChars(_, _)
HashChars(email, hash) ==
    IF email = <<>> THEN hash
    ELSE HashChars(Tail(email), ((hash * 32) - hash) + CharCode(Head(email)))

Abs(n) == IF n < 0 THEN -n ELSE n

Digits36 == <<"0", "1", "2", "3", "4", "5", "6", "7", "8", "9", "a", "b", "c", "d", "e", "f", "g", "h", "i",
              "j", "k", "l", "m", "n", "o", "p", "q", "r", "s", "t", "u", "v", "w", "x", "y", "z">>

\* Number.prototype.toString(36)
RECURSIVE ToString36(_)
ToString36(n) ==
    IF n < 36 THEN <<Digits36[n + 1]>>
    ELSE Append(ToString36(n \div 36), Digits36[(n % 36) + 1])

\* `user_${Math.abs(hash).toString(36)}`; the emails of the model are short
\* enough for the hash to stay within 32 bits
generateUserId(email) ==
    <<"u", "s", "e", "r", "_">> \o ToString36(Abs(HashChars(email, 0)))

----------------------------------------------------------------------------
(* authService: signUp, signIn, restoreSession, signOut, updateUserCurrency *)

\* (mutant) the email is trimmed and its case is kept
normalizeEmail_TrimOnly(email) == Trim(email)

\* email.toLowerCase().trim()
normalizeEmail(email) == Trim(ToLowerCase(email))

Ok(op) == [op |-> op, success |-> TRUE, error |-> ""]
Fail(op, error) == [op |-> op, success |-> FALSE, error |-> error]

\* (mutant) the check for an existing user is missing
signUpEarlyError_NoDuplicateCheck(name, email, password, database) ==
    IF name = <<>> \/ Len(Trim(name)) = 0 THEN "Name is required"
    ELSE IF email = <<>> \/ ~Includes(email, "@") THEN "Valid email is required"
    ELSE IF password = <<>> \/ Len(password) < MinPasswordLength
         THEN "Password must be at least 6 characters"
    ELSE ""

\* signUp up to its first await: the error it returns early, or "" to go on
signUpEarlyError(name, email, password, database) ==
    IF name = <<>> \/ Len(Trim(name)) = 0 THEN "Name is required"
    ELSE IF email = <<>> \/ ~Includes(email, "@") THEN "Valid email is required"
    ELSE IF password = <<>> \/ Len(password) < MinPasswordLength
         THEN "Password must be at least 6 characters"
    ELSE IF normalizeEmail(email) \in DOMAIN database
         THEN "User already exists. Please sign in."
    ELSE ""

\* (mutant) the record keeps the password itself
newUser_PlainPassword(name, normalizedEmail, password, now) ==
    [ email        |-> normalizedEmail,
      name         |-> Trim(name),
      passwordHash |-> password,
      createdAt    |-> now,
      currency     |-> "USD" ]

\* signUp after hashPassword: the record it creates
newUser(name, normalizedEmail, password, now) ==
    [ email        |-> normalizedEmail,
      name         |-> Trim(name),
      passwordHash |-> hashPassword(password),
      createdAt    |-> now,
      currency     |-> "USD" ]

\* database[normalizedEmail] = newUser
putUser(database, user) ==
    [e \in DOMAIN database \cup {user.email} |->
        IF e = user.email THEN user ELSE database[e]]

\* signIn up to its first await
signInEarlyError(email, password, database) ==
    IF email = <<>> \/ password = <<>> THEN "Email and password are required"
    ELSE IF normalizeEmail(email) \notin DOMAIN database THEN "User not found"
    ELSE ""

\* (mutant) any password is taken
passwordMatches_Always(password, storedUser) == TRUE

\* signIn after hashPassword: inputHash !== storedUser.passwordHash
passwordMatches(password, storedUser) ==
    hashPassword(password) = storedUser.passwordHash

newSession(storedUser, rememberMe, now) ==
    [ userId     |-> generateUserId(storedUser.email),
      email      |-> storedUser.email,
      name       |-> storedUser.name,
      currency   |-> storedUser.currency,
      createdAt  |-> now,
      rememberMe |-> rememberMe ]

\* (mutant) the session is written to both storages
persistSession_Both(ls, ss, session) ==
    <<SetItem(ls, SESSION_STORAGE_KEY, JSONstringify(session)),
      SetItem(ss, SESSION_STORAGE_KEY, JSONstringify(session))>>

\* signIn: where the session goes, as the pair <<localStorage, sessionStorage>>
persistSession(ls, ss, session) ==
    IF session.rememberMe
    THEN <<SetItem(ls, SESSION_STORAGE_KEY, JSONstringify(session)), ss>>
    ELSE <<ls, SetItem(ss, SESSION_STORAGE_KEY, JSONstringify(session))>>

\* (mutant) the temporary session is looked at first
restoreSession_TemporaryFirst(ls, ss) ==
    LET persistentSession == GetItem(ls, SESSION_STORAGE_KEY)
        temporarySession  == GetItem(ss, SESSION_STORAGE_KEY)
    IN  IF ~IsNull(temporarySession) THEN Some(JSONparse(Get(temporarySession)))
        ELSE IF ~IsNull(persistentSession) THEN Some(JSONparse(Get(persistentSession)))
        ELSE Null

\* the session as an optional value
restoreSession(ls, ss) ==
    LET persistentSession == GetItem(ls, SESSION_STORAGE_KEY)
        temporarySession  == GetItem(ss, SESSION_STORAGE_KEY)
    IN  IF ~IsNull(persistentSession) THEN Some(JSONparse(Get(persistentSession)))
        ELSE IF ~IsNull(temporarySession) THEN Some(JSONparse(Get(temporarySession)))
        ELSE Null

\* (mutant) only the persistent session is removed
authSignOut_LocalOnly(ls, ss) ==
    <<RemoveItem(ls, SESSION_STORAGE_KEY), ss>>

\* signOut, as the pair <<localStorage, sessionStorage>>
authSignOut(ls, ss) ==
    <<RemoveItem(ls, SESSION_STORAGE_KEY), RemoveItem(ss, SESSION_STORAGE_KEY)>>

\* session.currency = currency on the session stored in one storage, if any
updateSessionCurrency(storage, newCurrency) ==
    LET stored == GetItem(storage, SESSION_STORAGE_KEY)
    IN  IF IsNull(stored) THEN storage
        ELSE SetItem(storage, SESSION_STORAGE_KEY,
                     JSONstringify([JSONparse(Get(stored)) EXCEPT !.currency = newCurrency]))

\* updateUserCurrency, as the pair <<localStorage, sessionStorage>>
updateUserCurrency(ls, ss, email, newCurrency) ==
    LET database        == loadUsersDatabase(ls)
        normalizedEmail == normalizeEmail(email)
    IN  IF normalizedEmail \in DOMAIN database
        THEN LET saved == saveUsersDatabase(ls,
                              [database EXCEPT ![normalizedEmail].currency = newCurrency])
             IN  <<updateSessionCurrency(saved, newCurrency),
                   updateSessionCurrency(ss, newCurrency)>>
        ELSE <<ls, ss>>

----------------------------------------------------------------------------
(* AuthContext, ProtectedRoute, App, LoginPage *)

InitialAuthState == [isAuthenticated |-> FALSE, user |-> Null, isLoading |-> TRUE]

\* (mutant) the flag is left set when the user is cleared
Unauthenticated_FlagLeftSet == [isAuthenticated |-> TRUE, user |-> Null, isLoading |-> FALSE]

Unauthenticated == [isAuthenticated |-> FALSE, user |-> Null, isLoading |-> FALSE]

\* the User the AuthProvider builds from a Session
userOf(session) ==
    [ id       |-> session.userId,
      name     |-> session.name,
      email    |-> session.email,
      currency |-> session.currency ]

Authenticated(session) ==
    [isAuthenticated |-> TRUE, user |-> Some(userOf(session)), isLoading |-> FALSE]

\* (mutant) the guard forgets the isAuthenticated test
ProtectedRoute_NoAuthCheck(auth) ==
    IF auth.isLoading THEN "spinner" ELSE "children"

\* what ProtectedRoute returns
ProtectedRoute(auth) ==
    IF auth.isLoading THEN "spinner"
    ELSE IF ~auth.isAuthenticated THEN "null"
    ELSE "children"

\* the element of the matched <Route>
RouteElement(path, auth) ==
    IF path \in ProtectedPaths THEN ProtectedRoute(auth) ELSE "page"

\* (mutant) the effect does not wait for the session restore
ProtectedRouteEffect_IgnoresLoading(path, auth) ==
    IF ~auth.isAuthenticated THEN "/" ELSE path

\* ProtectedRoute's useEffect: where the app is after it has run
ProtectedRouteEffect(path, auth) ==
    IF ~auth.isLoading /\ ~auth.isAuthenticated THEN "/" ELSE path

\* LoginPage's useEffect on isAuthenticated
LoginPageEffect(path, auth) ==
    IF auth.isAuthenticated THEN "/dashboard" ELSE path

\* the effects of the route at path, run after a render
RouteEffects(path, auth) ==
    IF path \in ProtectedPaths THEN ProtectedRouteEffect(path, auth)
    ELSE IF path = "/login" THEN LoginPageEffect(path, auth)
    ELSE path

\* a render of the app at path with auth state auth
Commit(path, auth) ==
    /\ location' = path
    /\ rendered' = RouteElement(path, auth)

\* LoginPage's state on mount.  formData.name, formData.password and
\* rememberMe are read by handleSubmit only: they are chosen when the form is
\* submitted.
InitialLoginPage ==
    [ mode |-> "signin", email |-> <<>>, error |-> Null, isSubmitting |-> FALSE ]

\* LoginPage's state after a render at path: a change of route unmounts the
\* page, and a later mount starts from the initial state
LoginPageAt(path) == IF path = location THEN loginPage ELSE InitialLoginPage

----------------------------------------------------------------------------
(* lib/mockPrediction, lib/predictionAdapter.  A RiskFeature's name and reason
   are sequences of strings (fixed texts in one piece, texts built from a
   response character by character); risk_band, confidence and impact are the
   literals of their union types. *)

RiskFeature(name, impact, reason) == [name |-> name, impact |-> impact, reason |-> reason]

MLPrediction(riskScore, riskBand, confidence, topFeatures, recommendation) ==
    [ risk_score     |-> riskScore,
      risk_band      |-> riskBand,
      confidence     |-> confidence,
      top_features   |-> topFeatures,
      recommendation |-> recommendation ]

\* a / b for b > 0
RECURSIVE Gcd(_, _)
Gcd(m, n) == IF n = 0 THEN m ELSE Gcd(n, m % n)

\* the fraction in lowest terms with a positive denominator
Reduce(q) ==
    IF q[2] = 0 THEN q
    ELSE LET g == Gcd(Abs(q[1]), Abs(q[2]))
             s == IF q[2] < 0 THEN -1 ELSE 1
         IN  <<s * (q[1] \div g), s * (q[2] \div g)>>

Divide(a, b) == Reduce(<<Reduce(a)[1] * Reduce(b)[2], Reduce(a)[2] * Reduce(b)[1]>>)

\* topFeatures.find(f => f.name === name) finds one
HasFeature(features, name) == \E i \in 1..Len(features) : features[i].name = name

\* generateMockPrediction: while (topFeatures.length < 3) { ... }
RECURSIVE PadMockFeatures(_)
PadMockFeatures(features) ==
    IF Len(features) >= 3 THEN features
    ELSE IF ~HasFeature(features, <<"Employment Stability">>)
    THEN PadMockFeatures(Append(features,
            RiskFeature(<<"Employment Stability">>, "positive",
                        <<"Stable employment history supports consistent income">>)))
    ELSE IF ~HasFeature(features, <<"Loan Amount">>)
    THEN PadMockFeatures(Append(features,
            RiskFeature(<<"Loan Amount">>, "positive",
                        <<"Requested amount is within reasonable limits for profile">>)))
    ELSE features

\* generateMockPrediction, for an annualIncome that is not 0
generateMockPrediction(creditScore, annualIncome, monthlyDebt) ==
    LET debtToIncomeRatio == Divide(Scale(monthlyDebt, 12), annualIncome)
        byCredit == IF Less(creditScore, Rat(600)) THEN 30
                    ELSE IF Less(creditScore, Rat(700)) THEN 15
                    ELSE IF Less(Rat(750), creditScore) THEN -20
                    ELSE 0
        byDebt   == IF Less(<<2, 5>>, debtToIncomeRatio) THEN 20
                    ELSE IF Less(debtToIncomeRatio, <<1, 5>>) THEN -15
                    ELSE 0
        byIncome == IF Less(Rat(100000), annualIncome) THEN -10
                    ELSE IF Less(annualIncome, Rat(40000)) THEN 15
                    ELSE 0
        riskScore == MathMax(Rat(0), MathMin(Rat(100), Rat(50 + byCredit + byDebt + byIncome)))
        riskBand == IF Less(riskScore, Rat(30)) THEN "low"
                    ELSE IF Less(riskScore, Rat(60)) THEN "medium"
                    ELSE "high"
        confidence == IF creditScore[1] = 0 \/ annualIncome[1] = 0 THEN "low"
                      ELSE IF Less(creditScore, Rat(600)) \/ Less(<<1, 2>>, debtToIncomeRatio)
                      THEN "medium"
                      ELSE "high"
        credit == IF LessEq(Rat(750), creditScore)
                  THEN <<RiskFeature(<<"Credit Score">>, "positive",
                           <<"Strong credit history demonstrates reliable repayment behavior">>)>>
                  ELSE IF Less(creditScore, Rat(650))
                  THEN <<RiskFeature(<<"Credit Score">>, "negative",
                           <<"Credit history indicates elevated repayment risk">>)>>
                  ELSE <<>>
        debt   == IF Less(<<7, 20>>, debtToIncomeRatio)
                  THEN <<RiskFeature(<<"Debt-to-Income Ratio">>, "negative",
                           <<"High existing debt obligations may strain repayment capacity">>)>>
                  ELSE IF Less(debtToIncomeRatio, <<1, 5>>)
                  THEN <<RiskFeature(<<"Debt-to-Income Ratio">>, "positive",
                           <<"Low existing debt provides strong repayment capacity">>)>>
                  ELSE <<>>
        income == IF Less(Rat(90000), annualIncome)
                  THEN <<RiskFeature(<<"Annual Income">>, "positive",
                           <<"High income supports loan repayment capability">>)>>
                  ELSE IF Less(annualIncome, Rat(50000))
                  THEN <<RiskFeature(<<"Annual Income">>, "negative",
                           <<"Income level may limit repayment flexibility">>)>>
                  ELSE <<>>
        topFeatures == PadMockFeatures(credit \o debt \o income)
        recommendation ==
            IF riskBand = "low" /\ confidence = "high" THEN <<"Approve with standard terms">>
            ELSE IF riskBand = "low" /\ confidence = "medium"
            THEN <<"Approve with standard terms, monitor closely">>
            ELSE IF riskBand = "medium" /\ confidence = "high"
            THEN <<"Manual review recommended">>
            ELSE IF riskBand = "high" THEN <<"Decline or request additional verification">>
            ELSE <<"Manual review recommended">>
    IN  MLPrediction(MathRound(riskScore), riskBand, confidence,
                     SubSeq(topFeatures, 1, IF Len(topFeatures) < 3 THEN Len(topFeatures) ELSE 3),
                     Str(recommendation))

\* the literal of the union type that a text spells, or the fallback
Literal(text, literals, fallback) ==
    IF \E l \in literals : Chars(l) = text
    THEN CHOOSE l \in literals : Chars(l) = text
    ELSE fallback

normalizeRiskBand(value) ==
    Literal(ToLowerCase(String(value)), {"low", "medium", "high"}, "medium")

normalizeConfidence(value) ==
    Literal(ToLowerCase(String(value)), {"low", "medium", "high"}, "medium")

normalizeImpact(value) ==
    Literal(ToLowerCase(String(value)), {"positive", "negative"}, "positive")

\* feature?.name and the like: undefined on undefined and null as on any value
\* without the property
normalizeFeature(feature) ==
    RiskFeature(String(OrElse(Field(feature, "name"), Str(<<"Unknown Factor">>))),
                normalizeImpact(Field(feature, "impact")),
                String(OrElse(Field(feature, "reason"),
                              Str(<<"Impact analysis unavailable">>))))

DefaultFeature ==
    RiskFeature(<<"Additional Factor">>, "positive", <<"Supplementary risk assessment factor">>)

\* (mutant) one default feature is pushed instead of as many as are missing
PadFeatures_Once(features) ==
    IF Len(features) < 3 THEN Append(features, DefaultFeature) ELSE features

\* while (features.length < 3) features.push({...})
RECURSIVE PadFeatures(_)
PadFeatures(features) ==
    IF Len(features) < 3 THEN PadFeatures(Append(features, DefaultFeature)) ELSE features

\* array.slice(0, 3)
FirstThree(items) == SubSeq(items, 1, IF Len(items) < 3 THEN Len(items) ELSE 3)

\* Object.entries(value)
ObjectEntries(x) ==
    CASE x.t = "object" -> x.v
      [] x.t = "array" -> [i \in 1..Len(x.v) |-> Entry(NaturalToString(i - 1), x.v[i])]
      [] x.t = "string" -> [i \in 1..Len(x.v) |-> Entry(NaturalToString(i - 1), Str(<<x.v[i]>>))]
      [] OTHER -> <<>>

\* the loop over factorEntries: one feature for each entry whose value is an
\* object (typeof value === 'object' && value !== null: an array is one too)
RECURSIVE KeyFactorFeatures(_)
KeyFactorFeatures(factorEntries) ==
    IF factorEntries = <<>> THEN <<>>
    ELSE LET name       == Head(factorEntries).k
             factorData == Head(factorEntries).v
             rest       == KeyFactorFeatures(Tail(factorEntries))
         IN  IF factorData.t \in {"object", "array"}
             THEN <<RiskFeature(
                      FactorName(name),
                      IF StrictEquals(Field(factorData, "impact"), Str(Chars("negative")))
                      THEN "negative" ELSE "positive",
                      <<"Value: ">> \o String(Field(factorData, "value"))
                         \o <<", Risk contribution: ">>
                         \o String(Field(factorData, "risk_contribution")) \o <<"%">>)>> \o rest
             ELSE rest

\* 'status' in response && response.status === 'success' && response.data
IsUXSafeFormat(response) ==
    /\ HasField(response, "status")
    /\ StrictEquals(Field(response, "status"), Str(Chars("success")))
    /\ Truthy(Field(response, "data"))

\* normalizePrediction, for a response that is an object or an array
normalizePrediction(response) ==
    IF IsUXSafeFormat(response)
    THEN LET data == Field(response, "data")
         IN  MLPrediction(
               MathRound(Scale(ToNumber(OrElse(Field(data, "risk_score"), Num(Rat(0)))), 100)),
               normalizeRiskBand(OrElse(Field(data, "risk_level"), Str(Chars("MEDIUM")))),
               normalizeConfidence(OrElse(Field(data, "confidence_level"), Str(Chars("MEDIUM")))),
               PadFeatures(IF Truthy(Field(data, "key_factors"))
                           THEN KeyFactorFeatures(FirstThree(ObjectEntries(Field(data, "key_factors"))))
                           ELSE <<>>),
               OrElse(OrElse(Field(data, "explanation"), Field(data, "recommended_action")),
                      Str(<<"Manual review recommended">>)))
    ELSE LET riskScore == IF Field(response, "risk_score").t = "number"
                          THEN Field(response, "risk_score").v ELSE Rat(50)
             topFeatures == Field(response, "top_features")
         IN  MLPrediction(
               MathMax(Rat(0), MathMin(Rat(100), riskScore)),
               normalizeRiskBand(OrElse(Field(response, "risk_band"), Str(Chars("medium")))),
               normalizeConfidence(OrElse(Field(response, "confidence"), Str(Chars("medium")))),
               PadFeatures(IF topFeatures.t = "array"
                           THEN LET first == FirstThree(topFeatures.v)
                                IN  [i \in 1..Len(first) |-> normalizeFeature(first[i])]
                           ELSE <<>>),
               Str(String(OrElse(Field(response, "recommendation"),
                                 Str(<<"Manual review recommended">>)))))

\* what a call of fetchPrediction ends with
Returns(prediction) == [threw |-> FALSE, message |-> <<>>, prediction |-> Some(prediction)]
Throws(message) == [threw |-> TRUE, message |-> message, prediction |-> Null]

\* what fetch and response.json() give: no response at all, or a response
\* with its status and its body parsed as JSON (none when it is no JSON)
NetworkFailure == [kind |-> "network", status |-> 0, statusText |-> "", body |-> Null]
HttpResponse(status, statusText, body) ==
    [kind |-> "http", status |-> status, statusText |-> statusText, body |-> body]

\* response.ok
ResponseOk(reply) == reply.status >= 200 /\ reply.status <= 299

\* (mutant) a gateway timeout is reported as any other server error
HttpErrorMessage_No504(reply) ==
    IF reply.status = 422
    THEN <<"Invalid input data. Please check all fields and try again.">>
    ELSE IF reply.status >= 500 THEN <<"Server error. Please try again later.">>
    ELSE <<"Prediction failed: ", ToString(reply.status), " ", reply.statusText>>

\* fetchPrediction: the message for a response that is not ok
HttpErrorMessage(reply) ==
    IF reply.status = 422
    THEN <<"Invalid input data. Please check all fields and try again.">>
    ELSE IF reply.status = 504
    THEN <<"Prediction timeout. Please try again with different inputs.">>
    ELSE IF reply.status >= 500 THEN <<"Server error. Please try again later.">>
    ELSE <<"Prediction failed: ", ToString(reply.status), " ", reply.statusText>>

\* fetchPrediction, from the reply to its request.  The errors that the
\* engine raises (a rejected fetch, a body that is no JSON, a property read
\* on null, `in` on a primitive) are Errors and are thrown on as they are.
fetchPrediction(reply) ==
    IF reply.kind = "network" THEN Throws(<<"TypeError: Failed to fetch">>)
    ELSE IF ~ResponseOk(reply) THEN Throws(HttpErrorMessage(reply))
    ELSE IF IsNull(reply.body) THEN Throws(<<"SyntaxError: Unexpected token">>)
    ELSE LET data == Get(reply.body)
         IN  IF data.t \in {"null", "undefined"}
             THEN Throws(<<"TypeError: Cannot read properties of null">>)
             ELSE IF StrictEquals(Field(data, "status"), Str(Chars("error")))
             THEN Throws(String(OrElse(Field(data, "error"),
                                       Str(<<"Unknown backend error">>))))
             ELSE IF data.t \notin {"object", "array"}
             THEN Throws(<<"TypeError: Cannot use 'in' operator">>)
             ELSE Returns(normalizePrediction(data))

----------------------------------------------------------------------------
(* CurrencyProvider, usePrediction, Dashboard, RiskEnginePage, ExplainabilityPage:
   the state on mount *)

DEFAULT_CURRENCY == "USD"

Currencies == { "USD", "INR", "EUR", "GBP" }

\* isValidCurrency
isValidCurrency(code) == code \in Currencies

\* CURRENCY_CONFIGS[currency].rate
Rate(code) ==
    CASE code = "USD" -> <<1, 1>>
      [] code = "INR" -> <<83, 1>>
      [] code = "EUR" -> <<92, 100>>
      [] code = "GBP" -> <<79, 100>>

\* convertToUSD
convertToUSD(amount, sourceCurrency) ==
    IF IsNaN(amount) \/ amount[1] = 0 THEN Rat(0)
    ELSE IF ~isValidCurrency(sourceCurrency) THEN amount
    ELSE Divide(amount, Rate(sourceCurrency))

\* (mutant) the provider starts with the default currency whatever is stored
CurrencyOnMount_Default(ls) == DEFAULT_CURRENCY

\* CurrencyProvider: the currency after its mount effect
CurrencyOnMount(ls) ==
    LET stored == GetItem(ls, CURRENCY_STORAGE_KEY)
    IN  IF ~IsNull(stored) /\ isValidCurrency(Get(stored)) THEN Get(stored)
        ELSE DEFAULT_CURRENCY

\* the longest run of digits that chars starts with
RECURSIVE DigitPrefix(_)
DigitPrefix(chars) ==
    IF chars # <<>> /\ IsDigit(Head(chars))
    THEN <<Head(chars)>> \o DigitPrefix(Tail(chars))
    ELSE <<>>

RECURSIVE PowerOfTen(_)
PowerOfTen(n) == IF n = 0 THEN 1 ELSE 10 * PowerOfTen(n - 1)

\* parseFloat: the number that the longest decimal prefix of the text spells
\* (blanks, a sign, digits, a point, digits), NaN when there is none.  The
\* texts of the model have no exponent and do not spell Infinity.
parseFloat(text) ==
    LET trimmed  == TrimStart(text)
        signed   == trimmed # <<>> /\ Head(trimmed) \in {"-", "+"}
        negative == trimmed # <<>> /\ Head(trimmed) = "-"
        unsigned == IF signed THEN Tail(trimmed) ELSE trimmed
        whole    == DigitPrefix(unsigned)
        rest     == SubSeq(unsigned, Len(whole) + 1, Len(unsigned))
        fraction == IF rest # <<>> /\ Head(rest) = "." THEN DigitPrefix(Tail(rest)) ELSE <<>>
        value    == DigitsValue(whole \o fraction)
    IN  IF whole = <<>> /\ fraction = <<>> THEN NaN
        ELSE <<IF negative THEN -value ELSE value, PowerOfTen(Len(fraction))>>

\* sanitizeNumberInput: the number, or null
sanitizeNumberInput(value) ==
    IF Trim(value) = <<>> THEN Null
    ELSE LET num == parseFloat(value)
         IN  IF IsNaN(num) THEN Null ELSE Some(num)

\* usePrediction's useState<PredictionState>
InitialPredictionState ==
    [ prediction |-> Null, loading |-> FALSE, error |-> Null, analyzed |-> FALSE ]

\* Dashboard: INITIAL_FORM
INITIAL_FORM ==
    [ annualIncome    |-> <<"8", "5", "0", "0", "0">>,
      monthlyDebt     |-> <<"1", "2", "0", "0">>,
      creditScore     |-> <<"7", "2", "0">>,
      loanAmount      |-> <<"2", "5", "0", "0", "0">>,
      employmentYears |-> <<"5">> ]

\* the form of the page mounted at path; RiskEnginePage starts with another
\* annual income
InitialForm(path) ==
    IF path = "/risk-engine"
    THEN [INITIAL_FORM EXCEPT !.annualIncome = <<"7", "5", "0", "0", "0">>]
    ELSE INITIAL_FORM

AnalysisPaths == { "/dashboard", "/risk-engine" }

\* Dashboard and RiskEnginePage on mount: formData, validationError and the
\* page's own usePrediction()
AnalysisAt(path) ==
    [ formData |-> InitialForm(path), validationError |-> Null,
      hook |-> InitialPredictionState ]

InitialAnalysis == AnalysisAt("/")

\* ExplainabilityPage before its effects: its own usePrediction() and
\* cachedFeatures
InitialExplain == [ cachedFeatures |-> Null, hook |-> InitialPredictionState ]

\* ExplainabilityPage's effect on mount: the cached explanation is loaded
LoadCachedExplanation(page, ls) ==
    LET cached == GetItem(ls, EXPLANATION_STORAGE_KEY)
    IN  IF ~IsNull(cached) THEN [page EXCEPT !.cachedFeatures = Some(JSONparse(Get(cached)))]
        ELSE page

\* ExplainabilityPage's effect on [prediction], as the pair <<page, localStorage>>:
\* the features of the page's own prediction are cached
CacheExplanation(page, ls) ==
    IF ~IsNull(page.hook.prediction)
    THEN LET topFeatures == Get(page.hook.prediction).top_features
         IN  <<[page EXCEPT !.cachedFeatures = Some(topFeatures)],
               SetItem(ls, EXPLANATION_STORAGE_KEY, JSONstringify(topFeatures))>>
    ELSE <<page, ls>>

\* ExplainabilityPage: prediction?.top_features || cachedFeatures || []
displayFeatures(page) ==
    IF ~IsNull(page.hook.prediction) THEN Get(page.hook.prediction).top_features
    ELSE IF ~IsNull(page.cachedFeatures) THEN Get(page.cachedFeatures)
    ELSE <<>>

\* ExplainabilityPage: hasData; without it 'No Explanation Available' is shown
hasData(page) == Len(displayFeatures(page)) > 0

\* the route at path is rendered with auth: the pages that were mounted are
\* unmounted with their state (a request of theirs still pending sets the
\* state of no mounted component), and the page of the route is mounted and
\* its effects run
MountPages(path, auth) ==
    /\ analysis' = AnalysisAt(IF RouteElement(path, auth) = "children" THEN path ELSE "/")
    /\ request' = Null
    /\ LET mounted == path = "/explainability" /\ RouteElement(path, auth) = "children"
           after   == CacheExplanation(LoadCachedExplanation(InitialExplain, localStorage),
                                       localStorage)
       IN  /\ explain' = IF mounted THEN after[1] ELSE InitialExplain
           /\ localStorage' = IF mounted THEN after[2] ELSE localStorage

\* no function of src/lib has been called on its own
NoLibCall == [ fn |-> "none" ]

\* the pages behind the login as the authentication flow leaves them
AppInit ==
    /\ currency = DEFAULT_CURRENCY
    /\ analysis = InitialAnalysis
    /\ explain = InitialExplain
    /\ request = Null
    /\ useMockData = FALSE
    /\ call = NoLibCall

----------------------------------------------------------------------------
(* The state machine *)

\* The last render left an effect that navigates.  React flushes the effects
\* of a render before it handles the next event, so nothing else runs then.
EffectPending ==
    /\ phase # "closed"
    /\ RouteEffects(location, authState) # location

\* the app is mounted and idle: an event handler or a continuation can run
Idle == phase = "ready" /\ ~EffectPending

NoCall == [op |-> "none", success |-> FALSE, error |-> ""]

Init ==
    /\ localStorage = EmptyStorage
    /\ sessionStorage = EmptyStorage
    /\ authState = InitialAuthState
    /\ phase = "closed"
    /\ location = "/"
    /\ rendered = "unmounted"
    /\ inflight = Null
    /\ returned = NoCall
    /\ lastSignIn = "never"
    /\ loginPage = InitialLoginPage
    /\ submission = Null
    /\ AppInit

\* The page is loaded at path (a first visit, a reload, a reopened browser):
\* AuthProvider is constructed and the first render happens; the effects of
\* the first render see isLoading = true and do nothing.
Load(path) ==
    /\ phase = "closed" \/ Idle
    /\ phase' = "mounting"
    /\ authState' = InitialAuthState
    /\ inflight' = Null
    /\ Commit(path, authState')
    /\ returned' = NoCall
    /\ loginPage' = InitialLoginPage
    /\ submission' = Null
    /\ UNCHANGED <<localStorage, sessionStorage, lastSignIn>>
    /\ currency' = DEFAULT_CURRENCY
    /\ analysis' = InitialAnalysis
    /\ explain' = InitialExplain
    /\ request' = Null
    /\ UNCHANGED <<useMockData, call>>

\* AuthProvider's mount effect
RestoreEffect ==
    /\ phase = "mounting"
    /\ phase' = "ready"
    /\ LET session == restoreSession(localStorage, sessionStorage)
       IN  authState' = IF ~IsNull(session) THEN Authenticated(Get(session))
                        ELSE Unauthenticated
    /\ Commit(location, authState')
    /\ returned' = NoCall
    /\ UNCHANGED <<sessionStorage, inflight, lastSignIn, loginPage, submission>>
    /\ currency' = CurrencyOnMount(localStorage)
    /\ MountPages(location, authState')
    /\ UNCHANGED <<useMockData, call>>

\* The browser is closed: the page is gone and sessionStorage is discarded
CloseBrowser ==
    /\ Idle
    /\ phase' = "closed"
    /\ sessionStorage' = EmptyStorage
    /\ authState' = InitialAuthState
    /\ inflight' = Null
    /\ location' = "/"
    /\ rendered' = "unmounted"
    /\ lastSignIn' = IF lastSignIn = "temporary" THEN "temporary_closed" ELSE lastSignIn
    /\ returned' = NoCall
    /\ loginPage' = InitialLoginPage
    /\ submission' = Null
    /\ UNCHANGED localStorage
    /\ currency' = DEFAULT_CURRENCY
    /\ analysis' = InitialAnalysis
    /\ explain' = InitialExplain
    /\ request' = Null
    /\ UNCHANGED <<useMockData, call>>

\* The useEffect of ProtectedRoute or of LoginPage calls navigate(): the
\* route it navigates to is rendered
RunRouteEffect ==
    /\ EffectPending
    /\ Commit(RouteEffects(location, authState), authState)
    /\ loginPage' = LoginPageAt(location')
    /\ returned' = NoCall
    /\ UNCHANGED <<sessionStorage, authState, phase, inflight, lastSignIn, submission>>
    /\ MountPages(location', authState)
    /\ UNCHANGED <<currency, useMockData, call>>

\* A <Link> to path is followed
Visit(path) ==
    /\ Idle
    /\ path # location
    /\ Commit(path, authState)
    /\ loginPage' = LoginPageAt(location')
    /\ returned' = NoCall
    /\ MountPages(path, authState)
    /\ UNCHANGED <<sessionStorage, authState, phase, inflight, lastSignIn, submission>>
    /\ UNCHANGED <<currency, useMockData, call>>

\* the locals of a call that are live across its await of hashPassword
\* (signUp: name, normalizedEmail, password, database; signIn: password,
\* rememberMe, storedUser); the others are left at a default
SignUpLocals(name, normalizedEmail, password, database) ==
    [ op |-> "signUp", name |-> name, normalizedEmail |-> normalizedEmail,
      password |-> password, rememberMe |-> FALSE, database |-> database,
      storedUser |-> Null ]

SignInLocals(password, rememberMe, storedUser) ==
    [ op |-> "signIn", name |-> <<>>, normalizedEmail |-> storedUser.email,
      password |-> password, rememberMe |-> rememberMe, database |-> EmptyDatabase,
      storedUser |-> Some(storedUser) ]

\* AuthContext.signUp -> authService.signUp, up to the await of hashPassword
SignUpCall(name, email, password) ==
    /\ Idle
    /\ IsNull(inflight)
    /\ LET database == loadUsersDatabase(localStorage)
           error    == signUpEarlyError(name, email, password, database)
       IN  IF error # ""
           THEN /\ returned' = Fail("signUp", error)
                /\ inflight' = inflight
           ELSE /\ inflight' = Some(SignUpLocals(name, normalizeEmail(email),
                                               password, database))
                /\ returned' = NoCall
    /\ UNCHANGED <<localStorage, sessionStorage, authState, phase, location,
                   rendered, lastSignIn, loginPage, submission>>
    /\ UNCHANGED appVars

\* authService.signUp from the await of hashPassword to its return
SignUpResume ==
    /\ Idle
    /\ ~IsNull(inflight)
    /\ Get(inflight).op = "signUp"
    /\ \E now \in Times :
         LET c == Get(inflight)
         IN  localStorage' = saveUsersDatabase(localStorage,
                 putUser(c.database, newUser(c.name, c.normalizedEmail, c.password, now)))
    /\ returned' = Ok("signUp")
    /\ inflight' = Null
    /\ UNCHANGED <<sessionStorage, authState, phase, location, rendered, lastSignIn,
                   loginPage, submission>>
    /\ UNCHANGED appVars

\* AuthContext.signIn -> authService.signIn, up to the await of hashPassword
SignInCall(email, password, rememberMe) ==
    /\ Idle
    /\ IsNull(inflight)
    /\ LET database == loadUsersDatabase(localStorage)
           error    == signInEarlyError(email, password, database)
       IN  IF error # ""
           THEN /\ returned' = Fail("signIn", error)
                /\ inflight' = inflight
           ELSE /\ inflight' = Some(SignInLocals(password, rememberMe,
                                               database[normalizeEmail(email)]))
                /\ returned' = NoCall
    /\ UNCHANGED <<localStorage, sessionStorage, authState, phase, location,
                   rendered, lastSignIn, loginPage, submission>>
    /\ UNCHANGED appVars

\* authService.signIn from the await of hashPassword to its return, then the
\* continuation of AuthContext.signIn
SignInResume ==
    /\ Idle
    /\ ~IsNull(inflight)
    /\ Get(inflight).op = "signIn"
    /\ inflight' = Null
    /\ LET c          == Get(inflight)
           storedUser == Get(c.storedUser)
       IN  IF ~passwordMatches(c.password, storedUser)
           THEN /\ returned' = Fail("signIn", "Invalid password")
                /\ UNCHANGED <<localStorage, sessionStorage, authState, location,
                               rendered, lastSignIn>>
           ELSE \E now \in Times :
                  LET session == newSession(storedUser, c.rememberMe, now)
                      stores  == persistSession(localStorage, sessionStorage, session)
                  IN  /\ localStorage' = stores[1]
                      /\ sessionStorage' = stores[2]
                      /\ authState' = Authenticated(session)
                      /\ Commit(location, authState')
                      /\ returned' = Ok("signIn")
                      /\ lastSignIn' = IF c.rememberMe THEN "remembered" ELSE "temporary"
    /\ UNCHANGED <<phase, loginPage, submission>>
    /\ UNCHANGED appVars

\* AuthContext.signOut; from the Navbar's Sign Out button it is followed by
\* navigate('/')
SignOut(viaNavbar) ==
    /\ Idle
    /\ viaNavbar => (authState.isAuthenticated /\ ~IsNull(authState.user))
    /\ LET stores == authSignOut(localStorage, sessionStorage)
       IN  /\ localStorage' = stores[1]
           /\ sessionStorage' = stores[2]
    /\ authState' = Unauthenticated
    /\ Commit(IF viaNavbar THEN "/" ELSE location, authState')
    /\ loginPage' = LoginPageAt(location')
    /\ lastSignIn' = "signed_out"
    /\ returned' = NoCall
    /\ analysis' = InitialAnalysis
    /\ explain' = InitialExplain
    /\ request' = Null
    /\ UNCHANGED <<phase, inflight, submission>>
    /\ UNCHANGED <<currency, useMockData, call>>

\* AuthContext.updateCurrency
UpdateCurrency(newCurrency) ==
    /\ Idle
    /\ ~IsNull(authState.user)
    /\ LET user   == Get(authState.user)
           stores == updateUserCurrency(localStorage, sessionStorage, user.email, newCurrency)
       IN  /\ localStorage' = stores[1]
           /\ sessionStorage' = stores[2]
           /\ authState' =
                 [authState EXCEPT !.user = Some([user EXCEPT !.currency = newCurrency])]
    /\ Commit(location, authState')
    /\ returned' = NoCall
    /\ UNCHANGED <<phase, inflight, lastSignIn, loginPage, submission>>
    /\ UNCHANGED appVars

Next ==
    \/ \E path \in Paths : Load(path)
    \/ RestoreEffect
    \/ RunRouteEffect
    \/ CloseBrowser
    \/ \E path \in Paths : Visit(path)
    \/ \E name \in NameInputs, email \in EmailInputs, password \in PasswordInputs :
          SignUpCall(name, email, password)
    \/ SignUpResume
    \/ \E email \in EmailInputs, password \in PasswordInputs, rememberMe \in BOOLEAN :
          SignInCall(email, password, rememberMe)
    \/ SignInResume
    \/ \E viaNavbar \in BOOLEAN : SignOut(viaNavbar)
    \/ \E newCurrency \in CurrencyInputs : UpdateCurrency(newCurrency)

Spec == Init /\ [][Next]_vars

----------------------------------------------------------------------------
(* LoginPage: the form that calls signUp and signIn *)

userExists(ls, email) == normalizeEmail(email) \in DOMAIN loadUsersDatabase(ls)

\* the form can be used: the page is on screen and its inputs are enabled
FormEnabled ==
    /\ Idle
    /\ location = "/login"
    /\ ~loginPage.isSubmitting

\* handleInputChange on the email input, then the effect on formData.email
\* that picks the mode
HandleEmailChange(email) ==
    /\ FormEnabled
    /\ email # loginPage.email
    /\ loginPage' =
          [ loginPage EXCEPT
              !.email = email,
              !.error = Null,
              !.mode  = IF email # <<>> /\ Includes(email, "@")
                        THEN (IF userExists(localStorage, email) THEN "signin" ELSE "signup")
                        ELSE @ ]
    /\ returned' = NoCall
    /\ UNCHANGED <<localStorage, sessionStorage, authState, phase, location, rendered,
                   inflight, lastSignIn, submission>>
    /\ UNCHANGED appVars

\* handleInputChange on the name or the password input: if (error) setError(null)
HandleInputChange ==
    /\ FormEnabled
    /\ ~IsNull(loginPage.error)
    /\ loginPage' = [loginPage EXCEPT !.error = Null]
    /\ returned' = NoCall
    /\ UNCHANGED <<localStorage, sessionStorage, authState, phase, location, rendered,
                   inflight, lastSignIn, submission>>
    /\ UNCHANGED appVars

\* the button under the form: setMode(the other mode); setError(null)
ToggleMode ==
    /\ FormEnabled
    /\ loginPage' =
          [ loginPage EXCEPT
              !.mode  = IF @ = "signup" THEN "signin" ELSE "signup",
              !.error = Null ]
    /\ returned' = NoCall
    /\ UNCHANGED <<localStorage, sessionStorage, authState, phase, location, rendered,
                   inflight, lastSignIn, submission>>
    /\ UNCHANGED appVars

\* what of handleSubmit's closure is live across its awaits
SubmissionLocals(mode, email, password, rememberMe) ==
    [ mode |-> mode, email |-> email, password |-> password, rememberMe |-> rememberMe ]

\* (mutant) handleSubmit goes to the landing page after the sign-in
AfterSignInPath_Landing == "/"

\* handleSubmit: navigate('/dashboard', { replace: true })
AfterSignInPath == "/dashboard"

\* setError(...) and, in the finally block, setIsSubmitting(false).  They act
\* on the page instance that was submitted: it is the one on screen as long as
\* isSubmitting is true, and setting the state of an instance that was
\* unmounted does nothing.
SubmitFailed(page, error) ==
    IF page.isSubmitting \/ IsNull(submission)
    THEN [page EXCEPT !.error = Some(error), !.isSubmitting = FALSE]
    ELSE page

\* handleSubmit up to the await of hashPassword inside signUp or signIn.  One
\* handleSubmit runs at a time.
HandleSubmit(name, password, rememberMe) ==
    /\ FormEnabled
    /\ IsNull(submission)
    /\ IsNull(inflight)
    /\ LET email    == loginPage.email
           mode     == loginPage.mode
           database == loadUsersDatabase(localStorage)
           error    == IF mode = "signup"
                       THEN signUpEarlyError(name, email, password, database)
                       ELSE signInEarlyError(email, password, database)
           op       == IF mode = "signup" THEN "signUp" ELSE "signIn"
       IN  IF error # ""
           THEN /\ returned' = Fail(op, error)
                /\ loginPage' = SubmitFailed(loginPage, error)
                /\ UNCHANGED <<inflight, submission>>
           ELSE /\ inflight' =
                      IF mode = "signup"
                      THEN Some(SignUpLocals(name, normalizeEmail(email), password, database))
                      ELSE Some(SignInLocals(password, rememberMe,
                                             database[normalizeEmail(email)]))
                /\ submission' = Some(SubmissionLocals(mode, email, password, rememberMe))
                /\ loginPage' = [loginPage EXCEPT !.error = Null, !.isSubmitting = TRUE]
                /\ returned' = NoCall
    /\ UNCHANGED <<localStorage, sessionStorage, authState, phase, location, rendered,
                   lastSignIn>>
    /\ UNCHANGED appVars

\* signUp from the await of hashPassword to its return, then handleSubmit from
\* `if (result.success)` to the await of hashPassword inside signIn
HandleSubmitAfterSignUp ==
    /\ Idle
    /\ ~IsNull(submission)
    /\ ~IsNull(inflight)
    /\ Get(inflight).op = "signUp"
    /\ \E now \in Times :
         LET c        == Get(inflight)
             sub      == Get(submission)
             saved    == saveUsersDatabase(localStorage,
                             putUser(c.database,
                                     newUser(c.name, c.normalizedEmail, c.password, now)))
             database == loadUsersDatabase(saved)
             error    == signInEarlyError(sub.email, sub.password, database)
         IN  /\ localStorage' = saved
             /\ IF error # ""
                THEN /\ returned' = Fail("signIn", error)
                     /\ loginPage' = SubmitFailed(loginPage, error)
                     /\ inflight' = Null
                     /\ submission' = Null
                ELSE /\ returned' = Ok("signUp")
                     /\ inflight' = Some(SignInLocals(sub.password, sub.rememberMe,
                                                      database[normalizeEmail(sub.email)]))
                     /\ UNCHANGED <<loginPage, submission>>
    /\ UNCHANGED <<sessionStorage, authState, phase, location, rendered, lastSignIn>>
    /\ UNCHANGED appVars

\* signIn from the await of hashPassword to its return, the continuation of
\* AuthContext.signIn, then handleSubmit to its end
HandleSubmitAfterSignIn ==
    /\ Idle
    /\ ~IsNull(submission)
    /\ ~IsNull(inflight)
    /\ Get(inflight).op = "signIn"
    /\ inflight' = Null
    /\ submission' = Null
    /\ LET c          == Get(inflight)
           storedUser == Get(c.storedUser)
       IN  IF ~passwordMatches(c.password, storedUser)
           THEN /\ returned' = Fail("signIn", "Invalid password")
                /\ loginPage' = SubmitFailed(loginPage, "Invalid password")
                /\ UNCHANGED <<localStorage, sessionStorage, authState, location,
                               rendered, lastSignIn>>
           ELSE \E now \in Times :
                  LET session == newSession(storedUser, c.rememberMe, now)
                      stores  == persistSession(localStorage, sessionStorage, session)
                  IN  /\ localStorage' = stores[1]
                      /\ sessionStorage' = stores[2]
                      /\ authState' = Authenticated(session)
                      /\ Commit(AfterSignInPath, authState')
                      /\ loginPage' = LoginPageAt(location')
                      /\ returned' = Ok("signIn")
                      /\ lastSignIn' = IF c.rememberMe THEN "remembered" ELSE "temporary"
    /\ UNCHANGED phase
    /\ UNCHANGED appVars

LoginNext ==
    \/ \E path \in Paths : Load(path)
    \/ RestoreEffect
    \/ RunRouteEffect
    \/ CloseBrowser
    \/ \E path \in Paths : Visit(path)
    \/ \E viaNavbar \in BOOLEAN : SignOut(viaNavbar)
    \/ \E email \in EmailInputs : HandleEmailChange(email)
    \/ HandleInputChange
    \/ ToggleMode
    \/ \E name \in NameInputs, password \in PasswordInputs, rememberMe \in BOOLEAN :
          HandleSubmit(name, password, rememberMe)
    \/ HandleSubmitAfterSignUp
    \/ HandleSubmitAfterSignIn

LoginSpec == Init /\ [][LoginNext]_vars

----------------------------------------------------------------------------
(* lib/predictionAdapter and lib/mockPrediction called on their own *)

\* an object of the fields that are not undefined, in the order given
ObjectOf(fields) ==
    Obj(SelectSeq(fields, LAMBDA e : e.v.t # "undefined"))

FactorData(impact) ==
    Obj(<<Entry("impact", Str(Chars(impact))), Entry("value", Num(Rat(7))),
          Entry("risk_contribution", Num(Rat(12)))>>)

\* data.key_factors: missing, empty, one factor, three factors, four factors,
\* factors between values that are no objects, an array of factors, a number,
\* three factors after a value that is no object
KeyFactorInputs ==
    << Undefined,
      Obj(<<>>),
      Obj(<<Entry(<<"d", "t", "i">>, FactorData("negative"))>>),
      Obj(<<Entry(<<"d", "t", "i">>, FactorData("negative")),
            Entry(<<"a", "_", "b">>, FactorData("positive")),
            Entry(<<"x">>, Obj(<<>>))>>),
      Obj(<<Entry(<<"d", "t", "i">>, FactorData("negative")),
            Entry(<<"a", "_", "b">>, FactorData("positive")),
            Entry(<<"x">>, FactorData("positive")),
            Entry(<<"b", "i", "t">>, FactorData("negative"))>>),
      Obj(<<Entry(<<"d", "t", "i">>, Num(Rat(3))),
            Entry(<<"a", "_", "b">>, JNull),
            Entry(<<"x">>, FactorData("positive")),
            Entry(<<"b", "i", "t">>, FactorData("negative"))>>),
      Arr(<<FactorData("negative"), Str(<<"x">>)>>),
      Num(Rat(1)),
      Obj(<<Entry(<<"d", "t", "i">>, Num(Rat(3))),
            Entry(<<"a", "_", "b">>, FactorData("positive")),
            Entry(<<"x">>, FactorData("positive")),
            Entry(<<"b", "i", "t">>, FactorData("negative"))>>) >>

\* data.risk_score: missing, 0, 0.37, 0.005, 1, 1.5, -0.5, text that is no number
NewRiskScoreInputs ==
    << Undefined, Num(Rat(0)), Num(<<37, 100>>), Num(<<1, 200>>), Num(Rat(1)),
      Num(<<3, 2>>), Num(<<-1, 2>>), Str(<<"a">>) >>

LevelInputs ==
    << Undefined, JNull, Str(<<"L", "O", "W">>), Str(<<"H", "i", "g", "h">>),
      Str(Chars("medium")), Str(<<"b", "a", "d">>) >>

TextInputs ==
    << Undefined, Str(<<"A", "l">>) >>


ConfidenceInputs == << Undefined, Str(<<"L", "O", "W">>), Str(<<"b", "a", "d">>) >>

\* data of a UXSafePredictionResponse that is no object
PlainDataInputs == << Undefined, JNull, Num(Rat(1)) >>

\* a UXSafePredictionResponse
NewFormatBody(data) ==
    ObjectOf(<<Entry("status", Str(Chars("success"))), Entry("data", data)>>)

NewFormatData(riskScore, riskLevel, confidenceLevel, explanation, keyFactors) ==
    ObjectOf(<<Entry("risk_score", riskScore), Entry("risk_level", riskLevel),
               Entry("confidence_level", confidenceLevel),
               Entry("explanation", explanation), Entry("key_factors", keyFactors)>>)

LegacyFeature(name, impact) ==
    ObjectOf(<<Entry("name", name), Entry("impact", impact),
               Entry("reason", Str(<<"b", "a", "d">>))>>)

\* top_features: missing, no array, arrays of 0, 2, 3 and 4 features
TopFeatureInputs ==
    << Undefined,
      Str(<<"x">>),
      Arr(<<>>),
      Arr(<<LegacyFeature(Str(<<"d", "t", "i">>), Str(Chars("negative"))), JNull>>),
      Arr(<<LegacyFeature(Undefined, Str(<<"b", "a", "d">>)),
            LegacyFeature(Str(<<"x">>), Undefined),
            Str(<<"x">>)>>),
      Arr(<<LegacyFeature(Str(<<"d", "t", "i">>), Str(Chars("negative"))),
            LegacyFeature(Str(<<"x">>), Str(Chars("positive"))),
            LegacyFeature(Str(<<"a">>), Str(Chars("negative"))),
            LegacyFeature(Str(<<"b">>), Str(Chars("negative")))>>) >>

\* risk_score of the legacy format: missing, -5, 0, 50, 100, 150, text
LegacyRiskScoreInputs ==
    << Undefined, Num(Rat(-5)), Num(Rat(0)), Num(Rat(50)), Num(Rat(100)), Num(Rat(150)),
      Str(<<"5", "0">>) >>

LegacyBody(riskScore, riskBand, confidence, topFeatures, recommendation) ==
    ObjectOf(<<Entry("risk_score", riskScore), Entry("risk_band", riskBand),
               Entry("confidence", confidence), Entry("top_features", topFeatures),
               Entry("recommendation", recommendation)>>)

\* the error of an error body: missing, null, empty, a text
BackendErrorInputs == << Undefined, JNull, Str(<<>>), Str(<<"b", "a", "d">>) >>

ErrorBody(error) ==
    ObjectOf(<<Entry("status", Str(Chars("error"))), Entry("error", error)>>)

\* a body that is JSON but no object: null, a number, a string, an array
PlainBodyInputs == << JNull, Num(Rat(5)), Str(<<"x">>), Arr(<<>>) >>

StatusText(status) ==
    CASE status = 200 -> "OK"
      [] status = 201 -> "Created"
      [] status = 302 -> "Found"
      [] status = 400 -> "Bad Request"
      [] status = 404 -> "Not Found"
      [] status = 422 -> "Unprocessable Entity"
      [] status = 500 -> "Internal Server Error"
      [] status = 503 -> "Service Unavailable"
      [] status = 504 -> "Gateway Timeout"

OkStatusInputs == { 200, 201 }
ErrorStatusInputs == { 302, 400, 404, 422, 500, 503, 504 }
StatusInputs == OkStatusInputs \cup ErrorStatusInputs

Reply(status, body) == HttpResponse(status, StatusText(status), body)

CreditScoreInputs == { 0, 300, 599, 600, 649, 650, 700, 749, 750, 751, 850, 900 }
AnnualIncomeInputs == { 1, 39999, 40000, 49999, 50000, 60000, 90000, 90001, 100000, 100001 }
MonthlyDebtInputs == { 0, 999, 1000, 1250, 1750, 1751, 2000, 2001, 2500, 2501 }

CallFetchPrediction(reply) ==
    /\ call.fn = "none"
    /\ call' = [fn |-> "fetchPrediction", input |-> reply, output |-> fetchPrediction(reply)]
    /\ UNCHANGED authVars
    /\ UNCHANGED <<currency, analysis, explain, request, useMockData>>

CallGenerateMockPrediction(creditScore, annualIncome, monthlyDebt) ==
    /\ call.fn = "none"
    /\ call' = [ fn     |-> "generateMockPrediction",
                 input  |-> <<creditScore, annualIncome, monthlyDebt>>,
                 output |-> generateMockPrediction(Rat(creditScore), Rat(annualIncome),
                                                   Rat(monthlyDebt)) ]
    /\ UNCHANGED authVars
    /\ UNCHANGED <<currency, analysis, explain, request, useMockData>>

LibNext ==
    \/ CallFetchPrediction(NetworkFailure)
    \/ \E status \in StatusInputs : CallFetchPrediction(Reply(status, Null))
    \/ \E status \in StatusInputs, b \in DOMAIN PlainBodyInputs :
          CallFetchPrediction(Reply(status, Some(PlainBodyInputs[b])))
    \/ \E status \in StatusInputs, e \in DOMAIN BackendErrorInputs :
          CallFetchPrediction(Reply(status, Some(ErrorBody(BackendErrorInputs[e]))))
    \/ \E status \in OkStatusInputs, d \in DOMAIN PlainDataInputs :
          CallFetchPrediction(Reply(status, Some(NewFormatBody(PlainDataInputs[d]))))
    \/ \E status \in OkStatusInputs, s \in DOMAIN NewRiskScoreInputs, l \in DOMAIN LevelInputs,
          c \in DOMAIN ConfidenceInputs, x \in DOMAIN TextInputs, k \in DOMAIN KeyFactorInputs :
          CallFetchPrediction(Reply(status, Some(NewFormatBody(
              NewFormatData(NewRiskScoreInputs[s], LevelInputs[l], ConfidenceInputs[c],
                            TextInputs[x], KeyFactorInputs[k])))))
    \/ \E status \in OkStatusInputs, s \in DOMAIN LegacyRiskScoreInputs,
          l \in DOMAIN LevelInputs, c \in DOMAIN ConfidenceInputs,
          f \in DOMAIN TopFeatureInputs, x \in DOMAIN TextInputs :
          CallFetchPrediction(Reply(status, Some(LegacyBody(
              LegacyRiskScoreInputs[s], LevelInputs[l], ConfidenceInputs[c],
              TopFeatureInputs[f], TextInputs[x]))))
    \/ \E creditScore \in CreditScoreInputs, annualIncome \in AnnualIncomeInputs,
          monthlyDebt \in MonthlyDebtInputs :
          CallGenerateMockPrediction(creditScore, annualIncome, monthlyDebt)

LibSpec == Init /\ [][LibNext]_vars

----------------------------------------------------------------------------
(* CurrencyProvider, Dashboard, RiskEnginePage, ExplainabilityPage and
   usePrediction, for a user who is signed in *)

\* what is typed into the fields of the form
AnnualIncomeTexts == { <<"8", "5", "0", "0", "0">>, <<"7", "5", "0", "0", "0">>, <<"0">> }
MonthlyDebtTexts == { <<"1", "2", "0", "0">>, <<"-", "1">> }
CreditScoreTexts == { <<"7", "2", "0">>, <<"2", "9", "9">>, <<"3", "0", "0">>, <<"8", "5", "1">> }
LoanAmountTexts == { <<"2", "5", "0", "0", "0">>, <<" ">> }
EmploymentYearsTexts == { <<"5">>, <<"-", ".", "5">> }

FormFields ==
    { "annualIncome", "monthlyDebt", "creditScore", "loanAmount", "employmentYears" }

FieldTexts(name) ==
    CASE name = "annualIncome" -> AnnualIncomeTexts
      [] name = "monthlyDebt" -> MonthlyDebtTexts
      [] name = "creditScore" -> CreditScoreTexts
      [] name = "loanAmount" -> LoanAmountTexts
      [] name = "employmentYears" -> EmploymentYearsTexts

\* what the backend answers to a request
PredictionReplies ==
    << NetworkFailure,
       Reply(422, Null),
       Reply(500, Null),
       Reply(200, Null),
       Reply(200, Some(ErrorBody(Str(<<"b", "a", "d">>)))),
       Reply(200, Some(NewFormatBody(NewFormatData(
           Num(<<37, 100>>), Str(<<"L", "O", "W">>), Str(<<"L", "O", "W">>),
           Str(<<"A", "l">>), KeyFactorInputs[5])))),
       Reply(200, Some(LegacyBody(Num(Rat(50)), Str(<<"H", "i", "g", "h">>), Undefined,
                                  TopFeatureInputs[4], Undefined))) >>

\* an analysis page is mounted and an event handler can run
AnalysisPageShown == Idle /\ location \in AnalysisPaths /\ rendered = "children"

\* CurrencyProvider.setCurrency, called by CurrencySelector.handleSelect
SetCurrency(newCurrency) ==
    /\ Idle
    /\ currency' = newCurrency
    /\ localStorage' = SetItem(localStorage, CURRENCY_STORAGE_KEY, newCurrency)
    /\ UNCHANGED <<sessionStorage, authState, phase, location, rendered, inflight, returned,
                   lastSignIn, loginPage, submission>>
    /\ UNCHANGED <<analysis, explain, request, useMockData, call>>

\* Dashboard.handleInputChange, RiskEnginePage.handleInputChange
HandleFormInputChange(name, value) ==
    /\ AnalysisPageShown
    /\ analysis' = [analysis EXCEPT !.formData[name] = value, !.validationError = Null]
    /\ UNCHANGED authVars
    /\ UNCHANGED <<currency, explain, request, useMockData, call>>

\* (mutant) the credit score is only required to be a number
ValidationError_ScoreUnchecked(formData) ==
    LET annualIncomeNum    == sanitizeNumberInput(formData.annualIncome)
        monthlyDebtNum     == sanitizeNumberInput(formData.monthlyDebt)
        creditScoreNum     == sanitizeNumberInput(formData.creditScore)
        loanAmountNum      == sanitizeNumberInput(formData.loanAmount)
        employmentYearsNum == sanitizeNumberInput(formData.employmentYears)
    IN  IF IsNull(annualIncomeNum) \/ LessEq(Get(annualIncomeNum), Rat(0))
        THEN Some("Please enter a valid annual income")
        ELSE IF IsNull(monthlyDebtNum) \/ Less(Get(monthlyDebtNum), Rat(0))
        THEN Some("Please enter a valid monthly debt amount")
        ELSE IF IsNull(creditScoreNum)
        THEN Some("Credit score must be between 300 and 850")
        ELSE IF IsNull(loanAmountNum) \/ LessEq(Get(loanAmountNum), Rat(0))
        THEN Some("Please enter a valid loan amount")
        ELSE IF IsNull(employmentYearsNum) \/ Less(Get(employmentYearsNum), Rat(0))
        THEN Some("Please enter valid employment years")
        ELSE Null

\* handleAnalyze: the message it sets and returns with, none when it goes on
ValidationError(formData) ==
    LET annualIncomeNum    == sanitizeNumberInput(formData.annualIncome)
        monthlyDebtNum     == sanitizeNumberInput(formData.monthlyDebt)
        creditScoreNum     == sanitizeNumberInput(formData.creditScore)
        loanAmountNum      == sanitizeNumberInput(formData.loanAmount)
        employmentYearsNum == sanitizeNumberInput(formData.employmentYears)
    IN  IF IsNull(annualIncomeNum) \/ LessEq(Get(annualIncomeNum), Rat(0))
        THEN Some("Please enter a valid annual income")
        ELSE IF IsNull(monthlyDebtNum) \/ Less(Get(monthlyDebtNum), Rat(0))
        THEN Some("Please enter a valid monthly debt amount")
        ELSE IF IsNull(creditScoreNum) \/ Less(Get(creditScoreNum), Rat(300))
                \/ Less(Rat(850), Get(creditScoreNum))
        THEN Some("Credit score must be between 300 and 850")
        ELSE IF IsNull(loanAmountNum) \/ LessEq(Get(loanAmountNum), Rat(0))
        THEN Some("Please enter a valid loan amount")
        ELSE IF IsNull(employmentYearsNum) \/ Less(Get(employmentYearsNum), Rat(0))
        THEN Some("Please enter valid employment years")
        ELSE Null

\* handleAnalyze: the PredictionInput, amounts converted to USD
PredictionInputOf(formData, displayCurrency) ==
    [ annualIncome    |-> convertToUSD(Get(sanitizeNumberInput(formData.annualIncome)),
                                       displayCurrency),
      monthlyDebt     |-> convertToUSD(Get(sanitizeNumberInput(formData.monthlyDebt)),
                                       displayCurrency),
      creditScore     |-> Get(sanitizeNumberInput(formData.creditScore)),
      loanAmount      |-> convertToUSD(Get(sanitizeNumberInput(formData.loanAmount)),
                                       displayCurrency),
      employmentYears |-> Get(sanitizeNumberInput(formData.employmentYears)) ]

\* handleAnalyze, to the await in runPrediction; the button is disabled while
\* the hook is loading
HandleAnalyze ==
    /\ AnalysisPageShown
    /\ ~analysis.hook.loading
    /\ LET message == ValidationError(analysis.formData)
       IN  IF ~IsNull(message)
           THEN /\ analysis' = [analysis EXCEPT !.validationError = message]
                /\ UNCHANGED request
           ELSE /\ analysis' = [analysis EXCEPT !.hook.loading = TRUE, !.hook.error = Null]
                /\ request' = Some(PredictionInputOf(analysis.formData, currency))
    /\ UNCHANGED authVars
    /\ UNCHANGED <<currency, explain, useMockData, call>>

\* runPrediction: what its try block ends with
RunPredictionOutcome(input, reply) ==
    IF useMockData
    THEN Returns(generateMockPrediction(input.creditScore, input.annualIncome,
                                        input.monthlyDebt))
    ELSE fetchPrediction(reply)

PredictionSucceeded(prediction) ==
    [ prediction |-> Some(prediction), loading |-> FALSE, error |-> Null, analyzed |-> TRUE ]

\* (mutant) the message of the error that was thrown is shown
PredictionFailed_ThrownMessage(thrown) ==
    [ prediction |-> Null, loading |-> FALSE, error |-> Some(thrown), analyzed |-> FALSE ]

\* runPrediction: catch (error)
PredictionFailed(thrown) ==
    [ prediction |-> Null, loading |-> FALSE,
      error |-> Some(<<"Prediction temporarily unavailable">>), analyzed |-> FALSE ]

\* runPrediction after its await: the timer of the mock path fires, or the
\* backend has answered with reply or not at all
PredictionArrives(reply) ==
    /\ ~IsNull(request)
    /\ LET outcome == RunPredictionOutcome(Get(request), reply)
       IN  analysis' = [analysis EXCEPT !.hook =
                           IF outcome.threw THEN PredictionFailed(outcome.message)
                           ELSE PredictionSucceeded(Get(outcome.prediction))]
    /\ request' = Null
    /\ UNCHANGED authVars
    /\ UNCHANGED <<currency, explain, useMockData, call>>

\* a registered user is signed in with "remember me" and is on the Dashboard;
\* USE_MOCK_DATA is fixed by the build
PredictionInit ==
    LET now     == CHOOSE t \in Times : TRUE
        user    == newUser(<<"A", "l">>, <<"a", "@", "x">>, <<"s", "e", "c", "r", "e", "t">>, now)
        session == newSession(user, TRUE, now)
        stores  == persistSession(saveUsersDatabase(EmptyStorage, putUser(EmptyDatabase, user)),
                                  EmptyStorage, session)
    IN  /\ localStorage = stores[1]
        /\ sessionStorage = stores[2]
        /\ authState = Authenticated(session)
        /\ phase = "ready"
        /\ location = "/dashboard"
        /\ rendered = "children"
        /\ inflight = Null
        /\ returned = NoCall
        /\ lastSignIn = "remembered"
        /\ loginPage = InitialLoginPage
        /\ submission = Null
        /\ currency = DEFAULT_CURRENCY
        /\ analysis = AnalysisAt("/dashboard")
        /\ explain = InitialExplain
        /\ request = Null
        /\ useMockData \in BOOLEAN
        /\ call = NoLibCall

PredictionNext ==
    \/ \E path \in Paths : Load(path)
    \/ RestoreEffect
    \/ RunRouteEffect
    \/ CloseBrowser
    \/ \E path \in Paths : Visit(path)
    \/ \E newCurrency \in CurrencyInputs : SetCurrency(newCurrency)
    \/ \E name \in FormFields : \E value \in FieldTexts(name) : HandleFormInputChange(name, value)
    \/ HandleAnalyze
    \/ \E i \in DOMAIN PredictionReplies : PredictionArrives(PredictionReplies[i])

PredictionSpec == PredictionInit /\ [][PredictionNext]_vars

----------------------------------------------------------------------------
(* Claims *)

UsersDatabase == loadUsersDatabase(localStorage)

PersistentSession == GetItem(localStorage, SESSION_STORAGE_KEY)
TemporarySession == GetItem(sessionStorage, SESSION_STORAGE_KEY)

C1_WitnessSpinner == location = "/risk-engine" /\ rendered = "spinner"
C1_WitnessNothing == location = "/dashboard" /\ rendered = "null"

StoredUserFields == {"email", "name", "passwordHash", "createdAt", "currency"}
SessionFields == {"userId", "email", "name", "currency", "createdAt", "rememberMe"}
UserFields == {"id", "name", "email", "currency"}

\* the passwords of at least one character, and the hashes of all
PlainPasswords == PasswordInputs \ {<<>>}
PasswordHashes == { hashPassword(p) : p \in PasswordInputs }

HoldsNoPassword(text) == \A p \in PlainPasswords : ~Contains(text, p)
HoldsNoHash(text) == \A h \in PasswordHashes : ~Contains(text, h)

SessionIsClean(stored) ==
    IsNull(stored) \/
       LET session == JSONparse(Get(stored))
       IN  /\ DOMAIN session = SessionFields
           /\ \A text \in {session.userId, session.email, session.name} :
                 HoldsNoPassword(text) /\ HoldsNoHash(text)
           /\ session.currency \in CurrencyInputs
           /\ session.createdAt \in Times
           /\ session.rememberMe \in BOOLEAN

\* C2: no value in localStorage or sessionStorage contains a plain-text
\* password: a stored user record holds the SHA-256 hash of a password and no
\* password, and a session record and the AuthContext user hold neither a
\* password nor a hash.
C2_NoPlainTextPassword ==
    /\ \A e \in DOMAIN UsersDatabase :
          LET user == UsersDatabase[e]
          IN  /\ DOMAIN user = StoredUserFields
              /\ user.passwordHash \in PasswordHashes
              /\ \A text \in {user.email, user.name, user.passwordHash} :
                    HoldsNoPassword(text)
              /\ user.currency \in CurrencyInputs
              /\ user.createdAt \in Times
    /\ IsNull(GetItem(sessionStorage, USERS_STORAGE_KEY))
    /\ SessionIsClean(PersistentSession)
    /\ SessionIsClean(TemporarySession)
    /\ IsNull(authState.user) \/
          LET user == Get(authState.user)
          IN  /\ DOMAIN user = UserFields
              /\ \A text \in {user.id, user.name, user.email} :
                    HoldsNoPassword(text) /\ HoldsNoHash(text)
              /\ user.currency \in CurrencyInputs

C2_Witness ==
    /\ Cardinality(DOMAIN UsersDatabase) = 2
    /\ ~IsNull(PersistentSession)
    /\ ~IsNull(TemporarySession)
    /\ ~IsNull(authState.user)
    /\ Get(authState.user).currency = "EUR"
    /\ lastSignIn = "temporary"

\* C3: when session restore has finished and no user is authenticated, a
\* visit of a protected route redirects to the login page.
C3_RedirectsToLogin ==
    [][ ( /\ phase = "ready"
          /\ location \in ProtectedPaths
          /\ ~authState.isLoading
          /\ ~authState.isAuthenticated ) => location' = "/login" ]_vars

\* a signIn or signUp that returned early or failed leaves these alone
AuthUntouched ==
    UNCHANGED <<localStorage, sessionStorage, authState, lastSignIn>>

\* the shapes of the steps of signIn and signUp: a call returns at once or
\* leaves its locals in flight, and a resumption returns
IsCallStep(op) ==
    /\ IsNull(inflight)
    /\ returned'.op = op \/ (~IsNull(inflight') /\ Get(inflight').op = op)

IsResumeStep(op) ==
    /\ ~IsNull(inflight)
    /\ Get(inflight).op = op
    /\ returned'.op = op

\* signIn and signUp can be called
CanCall == Idle /\ IsNull(inflight)

Registered(email) == normalizeEmail(email) \in DOMAIN UsersDatabase

WrongPassword(email, password) ==
    hashPassword(password) # UsersDatabase[normalizeEmail(email)].passwordHash

\* what signIn does with given inputs in the current state, up to the hash
\* comparison: the error it returns early, or "" when it goes on to compare
SignInOutcome(email, password) == signInEarlyError(email, password, UsersDatabase)

\* a signIn call that returns early changes nothing; one that goes on has read
\* the stored user of its email
SignInCallFrame ==
    IsCallStep("signIn") =>
        /\ AuthUntouched
        /\ ~IsNull(inflight') =>
              LET c == Get(inflight')
              IN  /\ c.normalizedEmail \in DOMAIN UsersDatabase
                  /\ c.storedUser = Some(UsersDatabase[c.normalizedEmail])

\* the hash comparison refuses a wrong password and changes nothing
SignInRefusal ==
    ( /\ IsResumeStep("signIn")
      /\ hashPassword(Get(inflight).password) # Get(Get(inflight).storedUser).passwordHash ) =>
        /\ returned' = Fail("signIn", "Invalid password")
        /\ AuthUntouched

\* C4 as stated: signIn with a registered email and a wrong password returns
\* 'Invalid password', signIn with an unregistered email returns 'User not
\* found', and neither writes a session or changes the AuthContext state.
\* (A call with a registered email goes on to the hash comparison, whose step
\* returns the result.)
C4_SignInFailures ==
    /\ [](CanCall => \A email \in EmailInputs, password \in PasswordInputs :
            /\ ~Registered(email) => SignInOutcome(email, password) = "User not found"
            /\ (Registered(email) /\ WrongPassword(email, password)) =>
                  SignInOutcome(email, password) = "")
    /\ [][SignInCallFrame /\ SignInRefusal]_vars

\* C4 (amended): signIn with a non-empty registered email and a non-empty
\* wrong password returns 'Invalid password'; with a non-empty unregistered
\* email and a non-empty password it returns 'User not found'; with an empty
\* email or password it returns 'Email and password are required'.  In all
\* three cases no session is written and the AuthContext state is unchanged.
C4_SignInFailuresAmended ==
    /\ [](CanCall => \A email \in EmailInputs, password \in PasswordInputs :
            /\ (email = <<>> \/ password = <<>>) =>
                  SignInOutcome(email, password) = "Email and password are required"
            /\ (email # <<>> /\ password # <<>> /\ ~Registered(email)) =>
                  SignInOutcome(email, password) = "User not found"
            /\ ( /\ email # <<>>
                 /\ password # <<>>
                 /\ Registered(email)
                 /\ WrongPassword(email, password) ) =>
                  SignInOutcome(email, password) = "")
    /\ [][SignInCallFrame /\ SignInRefusal]_vars

\* a wrong password was refused while a session of an earlier sign-in stays
C4_Witness ==
    /\ returned = Fail("signIn", "Invalid password")
    /\ authState.isAuthenticated
    /\ ~IsNull(TemporarySession)

C4_WitnessNotFound ==
    /\ returned = Fail("signIn", "User not found")
    /\ Cardinality(DOMAIN UsersDatabase) = 1

\* what signUp does with given inputs in the current state, up to the
\* hashing: the error it returns early, or "" when it goes on to register
SignUpOutcome(name, email, password) ==
    signUpEarlyError(name, email, password, UsersDatabase)

\* a signUp call that returns early changes nothing
SignUpCallFrame ==
    IsCallStep("signUp") => (AuthUntouched /\ (returned'.op = "signUp" => IsNull(inflight')))

AlreadyExists == "User already exists. Please sign in."

\* C5 as stated: signUp with an email whose normalised form is already
\* registered returns 'User already exists. Please sign in.' and leaves the
\* users database unchanged.
C5_DuplicateSignUp ==
    /\ [](CanCall => \A name \in NameInputs, email \in EmailInputs, password \in PasswordInputs :
            Registered(email) => SignUpOutcome(name, email, password) = AlreadyExists)
    /\ [][SignUpCallFrame]_vars

\* C5 (amended): signUp with a name that is not blank, a password of at least
\* 6 characters and an email whose normalised form is already registered
\* returns 'User already exists. Please sign in.'; a signUp that returns an
\* error leaves the users database unchanged, the existing record included.
C5_DuplicateSignUpAmended ==
    /\ [](CanCall => \A name \in NameInputs, email \in EmailInputs, password \in PasswordInputs :
            ( /\ Trim(name) # <<>>
              /\ Len(password) >= 6
              /\ Registered(email) ) =>
                SignUpOutcome(name, email, password) = AlreadyExists)
    /\ [][SignUpCallFrame]_vars

C5_Witness ==
    /\ returned = Fail("signUp", AlreadyExists)
    /\ Cardinality(DOMAIN UsersDatabase) = 2
    /\ \E e \in DOMAIN UsersDatabase : UsersDatabase[e].currency = "EUR"

\* an address: one '@' with something before and after it, and no blanks
ValidEmailFormat(email) ==
    LET t == Trim(email)
    IN  \E i \in 2..(Len(t) - 1) :
           /\ t[i] = "@"
           /\ \A j \in (1..Len(t)) \ {i} : t[j] # "@" /\ ~IsSpace(t[j])

\* C6: signUp returns success = false and leaves the users database unchanged
\* whenever the name is empty or blank, the email is not in a valid email
\* format or the password has fewer than 6 characters; a user record exists
\* only for inputs that were all valid.  (A call that does not return an error
\* goes on to hash the password and to store the record.)
C6_SignUpValidation ==
    /\ [][ /\ SignUpCallFrame
           /\ (IsCallStep("signUp") /\ ~IsNull(inflight')) =>
                 LET c == Get(inflight')
                 IN  /\ Trim(c.name) # <<>>
                     /\ ValidEmailFormat(c.normalizedEmail)
                     /\ Len(c.password) >= 6
         ]_vars
    /\ [](\A e \in DOMAIN UsersDatabase :
            /\ ValidEmailFormat(e)
            /\ UsersDatabase[e].name # <<>>)

\* C7: after a successful sign-in with Remember me unchecked, once the browser
\* has been closed the next mount restores no session and the user is
\* unauthenticated.
C7_TemporarySessionEndsWithBrowser ==
    [][ (phase = "mounting" /\ phase' = "ready" /\ lastSignIn = "temporary_closed") =>
           (~authState'.isAuthenticated /\ IsNull(authState'.user)) ]_vars

\* the other entries of a storage are the same before and after the step
OnlySessionWritten(before, after) ==
    \A k \in StorageKeys \ {SESSION_STORAGE_KEY} : after[k] = before[k]

\* C8: a successful signIn writes the session under creditsmart_session to
\* localStorage when rememberMe is true and to sessionStorage when it is
\* false, and writes nothing else in either storage.
C8_SessionGoesToOneStorage ==
    [][ (IsResumeStep("signIn") /\ returned'.success) =>
          LET c       == Get(inflight)
              written == IF c.rememberMe THEN GetItem(localStorage', SESSION_STORAGE_KEY)
                         ELSE GetItem(sessionStorage', SESSION_STORAGE_KEY)
          IN  /\ ~IsNull(written)
              /\ JSONparse(Get(written)).email = c.normalizedEmail
              /\ JSONparse(Get(written)).rememberMe = c.rememberMe
              /\ IF c.rememberMe
                 THEN /\ sessionStorage' = sessionStorage
                      /\ OnlySessionWritten(localStorage, localStorage')
                 ELSE /\ localStorage' = localStorage
                      /\ OnlySessionWritten(sessionStorage, sessionStorage')
      ]_vars

\* a temporary sign-in has just been made next to an older persistent session
C8_Witness ==
    /\ returned = Ok("signIn")
    /\ lastSignIn = "temporary"
    /\ ~IsNull(PersistentSession)
    /\ ~IsNull(TemporarySession)
    /\ JSONparse(Get(PersistentSession)).email # JSONparse(Get(TemporarySession)).email

C10_SignOut ==
    [][ (\E viaNavbar \in BOOLEAN : SignOut(viaNavbar)) =>
          /\ IsNull(GetItem(localStorage', SESSION_STORAGE_KEY))
          /\ IsNull(GetItem(sessionStorage', SESSION_STORAGE_KEY))
          /\ authState' = [isAuthenticated |-> FALSE, user |-> Null, isLoading |-> FALSE]
          /\ GetItem(localStorage', USERS_STORAGE_KEY) = GetItem(localStorage, USERS_STORAGE_KEY)
          /\ IsNull(restoreSession(localStorage', sessionStorage'))
      ]_vars

\* the user has signed out of a persistent and a temporary session
C10_Witness ==
    /\ lastSignIn = "signed_out"
    /\ Cardinality(DOMAIN UsersDatabase) = 2
    /\ IsNull(PersistentSession)
    /\ IsNull(TemporarySession)
    /\ ~authState.isAuthenticated
    /\ phase = "ready"

\* what the call restoreSession() returns in the current state
RestoredNow == restoreSession(localStorage, sessionStorage)

\* C11: restoreSession returns the session stored in localStorage when one is
\* present, otherwise the session stored in sessionStorage when one is
\* present, otherwise null; the mount effect, which calls it, authenticates
\* the user of exactly that session and modifies neither storage.
C11_RestoreOrder ==
    /\ []( /\ ~IsNull(PersistentSession) =>
                RestoredNow = Some(JSONparse(Get(PersistentSession)))
           /\ (IsNull(PersistentSession) /\ ~IsNull(TemporarySession)) =>
                RestoredNow = Some(JSONparse(Get(TemporarySession)))
           /\ (IsNull(PersistentSession) /\ IsNull(TemporarySession)) =>
                IsNull(RestoredNow) )
    /\ [][ (phase = "mounting" /\ phase' = "ready") =>
              /\ localStorage' = localStorage
              /\ sessionStorage' = sessionStorage
              /\ ~IsNull(PersistentSession) =>
                    /\ authState'.isAuthenticated
                    /\ Get(authState'.user).email = JSONparse(Get(PersistentSession)).email
              /\ (IsNull(PersistentSession) /\ ~IsNull(TemporarySession)) =>
                    /\ authState'.isAuthenticated
                    /\ Get(authState'.user).email = JSONparse(Get(TemporarySession)).email
              /\ (IsNull(PersistentSession) /\ IsNull(TemporarySession)) =>
                    /\ ~authState'.isAuthenticated
                    /\ IsNull(authState'.user)
         ]_vars

\* a reload with two different sessions stored has restored the persistent
\* one, although the last sign-in was the temporary one
C11_Witness ==
    /\ phase = "ready"
    /\ lastSignIn = "temporary"
    /\ ~IsNull(PersistentSession)
    /\ ~IsNull(TemporarySession)
    /\ JSONparse(Get(PersistentSession)).email # JSONparse(Get(TemporarySession)).email
    /\ ~IsNull(authState.user)
    /\ Get(authState.user).email = JSONparse(Get(PersistentSession)).email

\* the session of a reload comes from sessionStorage when localStorage has none
C11_WitnessTemporary ==
    /\ phase = "ready"
    /\ returned = NoCall
    /\ IsNull(PersistentSession)
    /\ ~IsNull(TemporarySession)
    /\ authState.isAuthenticated
    /\ location = "/"

\* two emails are equal up to letter case and surrounding whitespace
SameAddress(e1, e2) == Trim(ToLowerCase(e1)) = Trim(ToLowerCase(e2))

\* a signUp that completes registers its email with the hash of its password
SignUpRegisters ==
    IsResumeStep("signUp") =>
        LET c == Get(inflight)
        IN  /\ returned' = Ok("signUp")
            /\ c.normalizedEmail \in DOMAIN UsersDatabase'
            /\ UsersDatabase'[c.normalizedEmail].passwordHash = hashPassword(c.password)
            /\ UsersDatabase'[c.normalizedEmail].email = c.normalizedEmail

\* no step removes an account or changes its email or password hash
AccountsKept ==
    \A e \in DOMAIN UsersDatabase :
        /\ e \in DOMAIN UsersDatabase'
        /\ UsersDatabase'[e].passwordHash = UsersDatabase[e].passwordHash
        /\ UsersDatabase'[e].email = UsersDatabase[e].email

\* the hash comparison accepts the password of the account and signs its user in
SignInAccepts ==
    ( /\ IsResumeStep("signIn")
      /\ Get(inflight).normalizedEmail \in DOMAIN UsersDatabase
      /\ hashPassword(Get(inflight).password) =
            UsersDatabase[Get(inflight).normalizedEmail].passwordHash ) =>
        /\ returned' = Ok("signIn")
        /\ authState'.isAuthenticated
        /\ Get(authState'.user).email = Get(inflight).normalizedEmail
        /\ ~IsNull(restoreSession(localStorage', sessionStorage'))

\* C12: once signUp(name, email, password) has succeeded, signIn(email',
\* password) succeeds for every email' that equals email up to letter case and
\* surrounding whitespace, at any later time and after any other calls: the
\* sign-up registers the account, no step removes it or changes its password
\* hash, and whenever signIn can be called it finds the account under every
\* such email' and accepts its password.
C12_SignInAfterSignUp ==
    /\ [][SignUpRegisters /\ AccountsKept /\ SignInAccepts]_vars
    /\ [](CanCall =>
            \A e \in DOMAIN UsersDatabase, email \in EmailInputs, password \in PasswordInputs :
               ( /\ SameAddress(e, email)
                 /\ hashPassword(password) = UsersDatabase[e].passwordHash ) =>
                    /\ signInEarlyError(email, password, UsersDatabase) = ""
                    /\ passwordMatches(password, UsersDatabase[normalizeEmail(email)]))

\* a user who changed the currency in an earlier session has signed in again,
\* next to a second account
C12_Witness ==
    /\ returned = Ok("signIn")
    /\ Cardinality(DOMAIN UsersDatabase) = 2
    /\ authState.isAuthenticated
    /\ Get(authState.user).currency = "EUR"
    /\ IsNull(PersistentSession)
    /\ lastSignIn = "temporary"

\* the call in flight completes in this step (the page is not torn down)
CallCompletes(op) ==
    /\ ~IsNull(inflight)
    /\ Get(inflight).op = op
    /\ inflight' # inflight
    /\ phase = "ready"
    /\ phase' = "ready"

\* the sign-up of a submitted form succeeds: the account is stored and the
\* sign-in with the email, the password and the Remember me of that form is
\* under way
SignUpThenSignIn ==
    (CallCompletes("signUp") /\ ~IsNull(submission)) =>
        LET c   == Get(inflight)
            sub == Get(submission)
        IN  /\ sub.mode = "signup"
            /\ c.normalizedEmail = Trim(ToLowerCase(sub.email))
            /\ c.password = sub.password
            /\ c.normalizedEmail \in DOMAIN UsersDatabase'
            /\ returned' = Ok("signUp")
            /\ submission' = submission
            /\ ~IsNull(inflight')
            /\ Get(inflight').op = "signIn"
            /\ Get(inflight').normalizedEmail = Trim(ToLowerCase(sub.email))
            /\ Get(inflight').password = sub.password
            /\ Get(inflight').rememberMe = sub.rememberMe
            /\ Get(inflight').storedUser = Some(UsersDatabase'[c.normalizedEmail])

\* the sign-in that follows a sign-up ends: on success the new user is
\* authenticated, the session is stored and the app is at /dashboard
SignedInAfterSignUp ==
    ( /\ CallCompletes("signIn")
      /\ ~IsNull(submission)
      /\ Get(submission).mode = "signup"
      /\ returned'.success ) =>
        LET sub     == Get(submission)
            address == Trim(ToLowerCase(sub.email))
            stored  == IF sub.rememberMe THEN GetItem(localStorage', SESSION_STORAGE_KEY)
                       ELSE GetItem(sessionStorage', SESSION_STORAGE_KEY)
        IN  /\ authState'.isAuthenticated
            /\ ~authState'.isLoading
            /\ Get(authState'.user).email = address
            /\ Get(authState'.user).name = UsersDatabase[address].name
            /\ ~IsNull(stored)
            /\ JSONparse(Get(stored)).email = address
            /\ location' = "/dashboard"
            /\ rendered' = "children"
            /\ IsNull(submission')

\* a submitted sign-up is refused: nothing is in flight afterwards, the error
\* is on the form and nothing was stored
SignUpRefused ==
    ( /\ FormEnabled
      /\ loginPage.mode = "signup"
      /\ returned'.op = "signUp"
      /\ ~returned'.success ) =>
        /\ IsNull(inflight')
        /\ IsNull(submission')
        /\ returned'.error # ""
        /\ loginPage'.error = Some(returned'.error)
        /\ ~loginPage'.isSubmitting
        /\ location' = location
        /\ AuthUntouched

\* C13: when a sign-up submitted on the login page succeeds, the page then
\* signs the new user in with the same email and password, and on success the
\* auth state is authenticated as the new user, a session for that user is
\* stored and the app navigates to /dashboard; when the sign-up fails no
\* sign-in is attempted and the error is shown.
C13_SignUpThenSignIn ==
    [][SignUpThenSignIn /\ SignedInAfterSignUp /\ SignUpRefused]_vars

\* a submitted sign-up has succeeded and its sign-in is under way, next to an
\* older account
C13_Witness ==
    /\ ~IsNull(submission)
    /\ Get(submission).mode = "signup"
    /\ returned = Ok("signUp")
    /\ ~IsNull(inflight)
    /\ Get(inflight).op = "signIn"
    /\ Cardinality(DOMAIN UsersDatabase) = 2
    /\ ~authState.isAuthenticated

\* the sign-in has brought a new user to the dashboard
C13_WitnessDashboard ==
    /\ returned = Ok("signIn")
    /\ location = "/dashboard"
    /\ rendered = "children"
    /\ lastSignIn = "temporary"
    /\ Cardinality(DOMAIN UsersDatabase) = 1

\* a sign-up with a registered email is refused on the form
C13_WitnessRefused ==
    /\ returned = Fail("signUp", AlreadyExists)
    /\ location = "/login"
    /\ loginPage.error = Some(AlreadyExists)
    /\ loginPage.mode = "signup"

----------------------------------------------------------------------------
(* fetchPrediction, normalizePrediction and generateMockPrediction *)

FetchCalled == call.fn = "fetchPrediction"

\* the body of the reply is JSON with status 'error'
BodySaysError(reply) ==
    /\ ~IsNull(reply.body)
    /\ Get(reply.body).t = "object"
    /\ HasField(Get(reply.body), "status")
    /\ Field(Get(reply.body), "status").t = "string"
    /\ Field(Get(reply.body), "status").v = Chars("error")

\* the error text of a body, when it has one that is not empty
BackendErrorText(body) ==
    IF HasField(body, "error") /\ Field(body, "error").t = "string"
          /\ Field(body, "error").v # <<>>
    THEN Field(body, "error").v
    ELSE <<"Unknown backend error">>

\* C18: fetchPrediction returns a prediction only for an ok response whose
\* body does not have status 'error', and throws otherwise; a response that is
\* not ok throws the message of its status code (422, 504, another status
\* from 500 on, any other status with its status text), and an ok response
\* with status 'error' in its body throws the error text of the body, or
\* 'Unknown backend error' when the body has none.
C18_FetchMessages ==
    FetchCalled =>
        LET reply == call.input
            out == call.output
            ok == reply.kind = "http" /\ reply.status \in 200..299
        IN  /\ ~out.threw => ok /\ ~BodySaysError(reply) /\ ~IsNull(out.prediction)
            /\ (~ok \/ BodySaysError(reply)) => out.threw /\ IsNull(out.prediction)
            /\ reply.kind = "http" /\ reply.status = 422 =>
                  out.message = <<"Invalid input data. Please check all fields and try again.">>
            /\ reply.kind = "http" /\ reply.status = 504 =>
                  out.message = <<"Prediction timeout. Please try again with different inputs.">>
            /\ reply.kind = "http" /\ reply.status >= 500 /\ reply.status # 504 =>
                  out.message = <<"Server error. Please try again later.">>
            /\ reply.kind = "http" /\ ~ok /\ reply.status < 500 /\ reply.status # 422 =>
                  out.message = <<"Prediction failed: ", ToString(reply.status), " ",
                                  reply.statusText>>
            /\ ok /\ BodySaysError(reply) =>
                  out.message = BackendErrorText(Get(reply.body))

\* a gateway timeout has been answered with its own message
C18_Witness ==
    /\ FetchCalled
    /\ call.input.status = 504
    /\ call.output.threw
    /\ call.output.message = <<"Prediction timeout. Please try again with different inputs.">>

C18_WitnessBackendError ==
    /\ FetchCalled
    /\ call.input.status = 200
    /\ BodySaysError(call.input)
    /\ call.output.message = <<"b", "a", "d">>

C18_WitnessReturned ==
    /\ FetchCalled
    /\ ~call.output.threw

InBands(band) == band \in {"low", "medium", "high"}

\* C19: the prediction that normalizePrediction returns for a response has
\* a risk_score from 0 to 100 and a risk_band and a confidence that are each
\* one of 'low', 'medium', 'high'.
C19_NormalizedRanges ==
    FetchCalled /\ ~call.output.threw =>
        LET prediction == Get(call.output.prediction)
        IN  /\ ~IsNaN(prediction.risk_score)
            /\ LessEq(Rat(0), prediction.risk_score)
            /\ LessEq(prediction.risk_score, Rat(100))
            /\ InBands(prediction.risk_band)
            /\ InBands(prediction.confidence)

\* the part of C19 on risk_band and confidence alone
C19_BandsOnly ==
    FetchCalled /\ ~call.output.threw =>
        /\ InBands(Get(call.output.prediction).risk_band)
        /\ InBands(Get(call.output.prediction).confidence)

MockCalled == call.fn = "generateMockPrediction"

\* C20: generateMockPrediction returns exactly 3 top_features when the credit
\* score is from 300 to 850, the annual income above 0 and the monthly debt
\* not below 0.
C20_MockThreeFeatures ==
    MockCalled /\ call.input[1] \in 300..850 /\ call.input[2] > 0 /\ call.input[3] >= 0 =>
        Len(call.output.top_features) = 3

\* at most 3 features, and 2 for some inputs
C20_MockAtMostThree ==
    MockCalled => Len(call.output.top_features) \in 2..3

----------------------------------------------------------------------------
(* The pages behind the login *)

\* a prediction has completed successfully on the page that is shown
PredictionShown ==
    /\ location \in AnalysisPaths
    /\ analysis.hook.analyzed
    /\ ~IsNull(analysis.hook.prediction)

\* C14: when a prediction has completed successfully on the Dashboard or the
\* Risk Engine page and the user goes to the Explainability page, the page
\* has data to display, the top_features of that prediction, and does not
\* show 'No Explanation Available'.
C14_ExplainabilityHasData ==
    [][PredictionShown /\ location' = "/explainability" /\ rendered' = "children"
          => /\ hasData(explain')
             /\ displayFeatures(explain') = Get(analysis.hook.prediction).top_features]_vars

\* what the pages do instead: the Explainability page never has data, and
\* nothing is ever stored under creditsmart_last_explanation
C14_NeverHasData ==
    /\ IsNull(GetItem(localStorage, EXPLANATION_STORAGE_KEY))
    /\ location = "/explainability" => ~hasData(explain)

StoredCurrency == GetItem(localStorage, CURRENCY_STORAGE_KEY)

\* C15: after setCurrency(c) the currency of CurrencyProvider and the value
\* stored under creditsmart_currency are both c, and whenever the provider
\* is mounted and its effects have run, its currency is the stored one.
C15_CurrencyPersisted ==
    /\ [][\A c \in CurrencyInputs :
            SetCurrency(c) => currency' = c /\ StoredCurrency' = Some(c)]_vars
    /\ [](phase = "ready" /\ ~IsNull(StoredCurrency) => currency = Get(StoredCurrency))

\* setCurrency('EUR') has been called
C15_Witness ==
    /\ phase = "ready"
    /\ currency = "EUR"
    /\ StoredCurrency = Some("EUR")

\* the provider is mounted again with EUR stored, its effect not yet run
C15_WitnessMount ==
    /\ phase = "mounting"
    /\ StoredCurrency = Some("EUR")

\* the fields of the form as numbers
FieldNumber(name) == sanitizeNumberInput(analysis.formData[name])

FieldValid(name) ==
    /\ ~IsNull(FieldNumber(name))
    /\ CASE name = "annualIncome" -> Less(Rat(0), Get(FieldNumber(name)))
         [] name = "monthlyDebt" -> LessEq(Rat(0), Get(FieldNumber(name)))
         [] name = "creditScore" -> /\ LessEq(Rat(300), Get(FieldNumber(name)))
                                    /\ LessEq(Get(FieldNumber(name)), Rat(850))
         [] name = "loanAmount" -> Less(Rat(0), Get(FieldNumber(name)))
         [] name = "employmentYears" -> LessEq(Rat(0), Get(FieldNumber(name)))

FieldOrder ==
    << "annualIncome", "monthlyDebt", "creditScore", "loanAmount", "employmentYears" >>

FieldMessage(name) ==
    CASE name = "annualIncome" -> "Please enter a valid annual income"
      [] name = "monthlyDebt" -> "Please enter a valid monthly debt amount"
      [] name = "creditScore" -> "Credit score must be between 300 and 850"
      [] name = "loanAmount" -> "Please enter a valid loan amount"
      [] name = "employmentYears" -> "Please enter valid employment years"

FormValid == \A i \in DOMAIN FieldOrder : FieldValid(FieldOrder[i])

\* C16: handleAnalyze calls runPrediction only when annual income > 0,
\* monthly debt >= 0, credit score within 300..850, loan amount > 0 and
\* employment years >= 0; when a field fails it sets the message of the
\* first failing field in that order, sends no request and leaves the
\* prediction state as it is.
C16_ValidatedBeforeRequest ==
    [][HandleAnalyze =>
          /\ request' # request => FormValid
          /\ ~FormValid =>
                /\ \E i \in DOMAIN FieldOrder :
                      /\ ~FieldValid(FieldOrder[i])
                      /\ \A j \in 1..(i - 1) : FieldValid(FieldOrder[j])
                      /\ analysis'.validationError = Some(FieldMessage(FieldOrder[i]))
                /\ request' = request
                /\ analysis'.hook = analysis.hook]_vars

\* the credit score is the first field that failed
C16_Witness ==
    /\ location \in AnalysisPaths
    /\ analysis.validationError = Some("Credit score must be between 300 and 850")
    /\ ~FieldValid("creditScore")
    /\ ~FieldValid("employmentYears")
    /\ IsNull(request)

\* a valid form has been sent
C16_WitnessRequest ==
    /\ FormValid
    /\ ~IsNull(request)
    /\ analysis.hook.loading

FailedState ==
    [ prediction |-> Null, loading |-> FALSE,
      error |-> Some(<<"Prediction temporarily unavailable">>), analyzed |-> FALSE ]

\* the request has failed: no reply, a response that is not ok, or a body
\* with status 'error'
RequestFailed(reply) ==
    \/ reply.kind = "network"
    \/ reply.status \notin 200..299
    \/ BodySaysError(reply)

\* a pending runPrediction completes on the page that called it
RunPredictionCompletes ==
    /\ ~IsNull(request)
    /\ IsNull(request')
    /\ location' = location
    /\ phase' = phase

\* C17: a runPrediction that completes leaves the hook in one of two states:
\* the normalized result with loading false, error null and analyzed true, or
\* no prediction, loading false, analyzed false and the error 'Prediction
\* temporarily unavailable', which is the state after every failure of the
\* request whatever its cause.
C17_RunPredictionEndStates ==
    [][RunPredictionCompletes =>
          /\ \/ analysis'.hook = FailedState
             \/ /\ ~IsNull(analysis'.hook.prediction)
                /\ ~analysis'.hook.loading
                /\ IsNull(analysis'.hook.error)
                /\ analysis'.hook.analyzed
                /\ \E i \in DOMAIN PredictionReplies :
                      analysis'.hook.prediction
                         = RunPredictionOutcome(Get(request), PredictionReplies[i]).prediction
          /\ \A i \in DOMAIN PredictionReplies :
                ~useMockData /\ RequestFailed(PredictionReplies[i])
                   /\ PredictionArrives(PredictionReplies[i])
                => analysis'.hook = FailedState]_vars

\* a request has failed
C17_Witness ==
    /\ location \in AnalysisPaths
    /\ analysis.hook = FailedState
    /\ ~useMockData

\* a request has succeeded
C17_WitnessSuccess ==
    /\ PredictionShown
    /\ ~analysis.hook.loading
    /\ IsNull(analysis.hook.error)
    /\ ~useMockData

----------------------------------------------------------------------------
(* normalizePrediction: top_features *)

\* fetchPrediction has returned what normalizePrediction made of the body
Normalized == FetchCalled /\ ~call.output.threw

NormalizedFeatures == Get(call.output.prediction).top_features

\* top_features of a legacy body when it is an array, no features otherwise
LegacyFeatureList ==
    LET topFeatures == Field(Get(call.input.body), "top_features")
    IN  IF topFeatures.t = "array" THEN topFeatures.v ELSE <<>>

IsPadding(feature) == feature.name = <<"Additional Factor">>

\* C21: normalizePrediction returns exactly 3 top_features for every
\* response: in the legacy format the first 3 of top_features, in the new
\* format features of key_factors, and in both the default 'Additional
\* Factor' entry in the places that are left.
C21_ThreeFeatures ==
    Normalized =>
        /\ Len(NormalizedFeatures) = 3
        /\ ~IsUXSafeFormat(Get(call.input.body)) =>
              \A i \in 1..3 :
                 IF i <= Len(LegacyFeatureList)
                 THEN NormalizedFeatures[i] = normalizeFeature(LegacyFeatureList[i])
                 ELSE NormalizedFeatures[i] = DefaultFeature
        /\ IsUXSafeFormat(Get(call.input.body)) =>
              \A i \in 1..3 :
                 \/ NormalizedFeatures[i] = DefaultFeature
                 \/ \E e \in 1..Len(ObjectEntries(Field(Field(Get(call.input.body), "data"),
                                                        "key_factors"))) :
                       NormalizedFeatures[i].name
                          = FactorName(ObjectEntries(Field(Field(Get(call.input.body), "data"),
                                                           "key_factors"))[e].k)

\* a legacy list of 4 features has been cut to 3
C21_Witness ==
    /\ Normalized
    /\ ~IsUXSafeFormat(Get(call.input.body))
    /\ Len(LegacyFeatureList) = 4
    /\ Len(NormalizedFeatures) = 3
    /\ \A i \in 1..3 : ~IsPadding(NormalizedFeatures[i])

\* a missing list has been padded
C21_WitnessPadded ==
    /\ Normalized
    /\ IsUXSafeFormat(Get(call.input.body))
    /\ ~HasField(Field(Get(call.input.body), "data"), "key_factors")
    /\ \A i \in 1..3 : NormalizedFeatures[i] = DefaultFeature

\* the entries of data.key_factors in the new format
KeyFactorEntries ==
    ObjectEntries(Field(Field(Get(call.input.body), "data"), "key_factors"))

\* typeof value === 'object' && value !== null
ObjectValued(value) == value.t \in {"object", "array"}

ObjectValuedCount ==
    Cardinality({ e \in 1..Len(KeyFactorEntries) : ObjectValued(KeyFactorEntries[e].v) })

\* C22: in the new format, when key_factors has at least 3 object-valued
\* entries, none of the 3 top_features returned is the default 'Additional
\* Factor' padding entry.
C22_NoPaddingWithThreeFactors ==
    Normalized /\ IsUXSafeFormat(Get(call.input.body)) /\ ObjectValuedCount >= 3 =>
        \A i \in 1..Len(NormalizedFeatures) : ~IsPadding(NormalizedFeatures[i])

\* what holds instead: no padding when the first 3 entries are object-valued
C22_NoPaddingWithThreeLeadingFactors ==
    Normalized /\ IsUXSafeFormat(Get(call.input.body)) /\ Len(KeyFactorEntries) >= 3
       /\ (\A e \in 1..3 : ObjectValued(KeyFactorEntries[e].v)) =>
        \A i \in 1..Len(NormalizedFeatures) : ~IsPadding(NormalizedFeatures[i])

----------------------------------------------------------------------------
(* The session after signIn, the flags of AuthProvider, updateUserCurrency *)

\* C23: after a successful signIn for a user, whatever the two storages held
\* before, restoreSession returns a session with that user's email: the user
\* in the AuthContext state is the user that a reload would restore.
C23_RestoreAfterSignIn ==
    [][ (IsResumeStep("signIn") /\ returned'.success) =>
          LET restored == restoreSession(localStorage', sessionStorage')
          IN  /\ ~IsNull(restored)
              /\ Get(restored).email = Get(inflight).normalizedEmail
              /\ ~IsNull(authState'.user)
              /\ Get(authState'.user).email = Get(restored).email
      ]_vars

\* what holds instead: the claim for a signIn with rememberMe = true
C23_RestoreAfterRememberedSignIn ==
    [][ (IsResumeStep("signIn") /\ returned'.success /\ Get(inflight).rememberMe) =>
          LET restored == restoreSession(localStorage', sessionStorage')
          IN  /\ ~IsNull(restored)
              /\ Get(restored).email = Get(inflight).normalizedEmail
              /\ Get(authState'.user).email = Get(restored).email
      ]_vars

\* C24: in every reachable state of AuthProvider isAuthenticated is true
\* exactly when user is not null, whatever sequence of mount, signIn, signUp,
\* signOut and updateCurrency ran; once the mount effect has run isLoading is
\* false, and it stays false for as long as that provider is mounted.
C24_FlagsAgree ==
    /\ [](authState.isAuthenticated <=> ~IsNull(authState.user))
    /\ [](phase = "ready" => ~authState.isLoading)
    /\ [][ (phase = "mounting" /\ phase' = "ready") => ~authState'.isLoading ]_vars
    /\ [][ (~authState.isLoading /\ phase' = "ready") => ~authState'.isLoading ]_vars

\* a sign-in succeeded after the restore had run
C24_Witness ==
    /\ phase = "ready"
    /\ returned = Ok("signIn")
    /\ authState.isAuthenticated
    /\ ~IsNull(authState.user)
    /\ ~authState.isLoading

\* the user was cleared by signOut after the restore had run
C24_WitnessSignedOut ==
    /\ phase = "ready"
    /\ lastSignIn = "signed_out"
    /\ ~authState.isAuthenticated
    /\ IsNull(authState.user)
    /\ ~authState.isLoading

\* a step of AuthContext.updateCurrency
IsUpdateCurrencyStep ==
    /\ Idle
    /\ ~IsNull(authState.user)
    /\ inflight' = inflight
    /\ lastSignIn' = lastSignIn
    /\ \E newCurrency \in CurrencyInputs : UpdateCurrency(newCurrency)

\* the session stored in a storage belongs to another user than email
SessionOfAnotherUser(storage, email) ==
    LET stored == GetItem(storage, SESSION_STORAGE_KEY)
    IN  ~IsNull(stored) /\ JSONparse(Get(stored)).email # normalizeEmail(email)

\* the other users of the database are the same before and after
OtherUsersUnchanged(email) ==
    LET before == loadUsersDatabase(localStorage)
        after  == loadUsersDatabase(localStorage')
    IN  /\ DOMAIN after = DOMAIN before
        /\ \A other \in DOMAIN before \ {normalizeEmail(email)} : after[other] = before[other]

\* C25: updateUserCurrency(email, currency) changes the stored user with that
\* normalised email and the stored sessions of that user only: a session in
\* localStorage or sessionStorage with another email is left unchanged, and
\* for an email that is not registered nothing is changed.
C25_CurrencyOfOneUserOnly ==
    [][ IsUpdateCurrencyStep =>
          LET email == Get(authState.user).email
          IN  /\ OtherUsersUnchanged(email)
              /\ SessionOfAnotherUser(localStorage, email) =>
                    GetItem(localStorage', SESSION_STORAGE_KEY)
                        = GetItem(localStorage, SESSION_STORAGE_KEY)
              /\ SessionOfAnotherUser(sessionStorage, email) =>
                    GetItem(sessionStorage', SESSION_STORAGE_KEY)
                        = GetItem(sessionStorage, SESSION_STORAGE_KEY)
              /\ normalizeEmail(email) \notin DOMAIN loadUsersDatabase(localStorage) =>
                    UNCHANGED <<localStorage, sessionStorage>>
      ]_vars

\* what holds instead: the users database changes for that user only, and
\* every stored session keeps all its fields but currency
C25_OtherUsersKept ==
    [][ IsUpdateCurrencyStep =>
          LET email == Get(authState.user).email
          IN  /\ OtherUsersUnchanged(email)
              /\ \A storage \in {<<localStorage, localStorage'>>,
                                 <<sessionStorage, sessionStorage'>>} :
                    LET before == GetItem(storage[1], SESSION_STORAGE_KEY)
                        after  == GetItem(storage[2], SESSION_STORAGE_KEY)
                    IN  /\ IsNull(before) <=> IsNull(after)
                        /\ ~IsNull(before) =>
                              \E newCurrency \in CurrencyInputs :
                                 JSONparse(Get(after)) =
                                    [JSONparse(Get(before)) EXCEPT !.currency = newCurrency]
      ]_vars

====
